---- MODULE Spec2Model ----
(***************************************************************************)
(* Employee portal of the secure payments service: the transaction         *)
(* authorization routes (verify, submit-to-swift) and the employee login   *)
(* with its lockout counters, as state machines whose steps are the code   *)
(* between two awaits of a request handler.                                *)
(***************************************************************************)
EXTENDS Integers, Sequences, FiniteSets, TLC

(* ------------------------------ bounds --------------------------------- *)
NumTxns == 2
NumProcs == 2
NumEmployees == 3
MaxBatch == 2
NumAccounts == 1
NumLoginProcs == 2
NumRefreshProcs == 2
NumSalts == 2
MaxTime == 21
TickMinutes == 5

(* ------------------------- program constants --------------------------- *)
DefaultVerificationLimit == 100000
MaxNotesLength == 500
MaxBatchSize_Hundred == 2 * 50
MaxBatchSize == 50
maxAttempts == 5
\* 15 * 60 * 1000 ms; the clock of the model counts minutes.
lockTime == 15

TxnIds == 1..NumTxns
Procs == 1..NumProcs
Employees == 1..NumEmployees
\* The employees whose credentials the login requests name.
Accounts == 1..NumAccounts
LoginProcs == 1..NumLoginProcs
RefreshProcs == 1..NumRefreshProcs

\* A well-formed ObjectId that names no stored transaction, and a malformed id.
MissingId == 0
BadId == 0 - 1
IdInputs == TxnIds \cup {MissingId, BadId}

\* An absent Date (undefined / null).
NoTime == 0 - 1

Statuses == {"PENDING", "VERIFIED", "PROCESSING", "COMPLETED", "REJECTED", "CANCELLED"}
\* The statuses of the transactions stored when the service starts.
InitStatuses == {"PENDING", "VERIFIED", "COMPLETED", "CANCELLED"}
Roles == <<"EMPLOYEE", "SUPERVISOR", "ADMIN">>
Limits == <<DefaultVerificationLimit, DefaultVerificationLimit, 0, 500>>
Amounts == <<150000, DefaultVerificationLimit, 500>>

RoleOf(e) == Roles[((e - 1) % 3) + 1]
LimitOf(e) == Limits[((e - 1) % 4) + 1]
AmountOf(t) == Amounts[((t - 1) % 3) + 1]

\* req.employee, the context the authorization gate attaches to a request.
EmployeeCtx(e) == [id |-> e, role |-> RoleOf(e), verificationLimit |-> LimitOf(e)]

\* Request bodies. A notes string is its text and its length: absent, a short
\* text, and a text of 501 characters.
NoNotes == [text |-> "", length |-> 0]
ShortNotes == [text |-> "ok", length |-> 2]
LongNotes == [text |-> "xxx...", length |-> MaxNotesLength + 1]
NotesInputs == {NoNotes, ShortNotes, LongNotes}
DefaultReason == [text |-> "Rejected by employee", length |-> 20]
\* The verified flag of the body: a boolean, or anything else.
FlagInputs == {"true", "false", "absent"}

\* The bodies of a verify request: every well-formed one, and one of each
\* malformed shape.
VerifyInputs ==
    [id : TxnIds \cup {0}, flag : {"true", "false"}, notes : {NoNotes, ShortNotes}]
    \cup {[id |-> 0 - 1, flag |-> "true", notes |-> NoNotes],
          [id |-> 1, flag |-> "absent", notes |-> NoNotes],
          [id |-> 1, flag |-> "false", notes |-> LongNotes]}

RECURSIVE SeqsUpTo(_, _)
SeqsUpTo(S, n) ==
    IF n = 0 THEN {<< >>}
    ELSE LET shorter == SeqsUpTo(S, n - 1)
         IN  shorter \cup {Append(s, x) : s \in {q \in shorter : Len(q) = n - 1}, x \in S}
\* A body whose transactionIds is absent or is not an array is written as
\* the list <<NotAnArray>>.
NotAnArray == 0 - 2
\* A list of 51 ids.
Oversize == [i \in 1..51 |-> 1]
\* The id lists of a submit request: every list of well-formed ids up to
\* MaxBatch, the empty list, one list holding a malformed id, a list of
\* more ids than the route accepts, and a body without an array.
BatchInputs ==
    SeqsUpTo(TxnIds \cup {MissingId}, MaxBatch) \cup {<<BadId>>, Oversize, <<NotAnArray>>}
Range(s) == {s[i] : i \in 1..Len(s)}

VARIABLES
    now,        \* Date.now()
    txStore,    \* the Transaction collection
    auditLog,   \* events handed to auditLogger.logPaymentEvent
    th,         \* the transaction request handler each process is running
    sh,         \* the statistics handler: the counts read so far and its response
    empStore,   \* the Employee collection: the fields the login reads and writes
    lh,         \* the login handler each login process is running
    failStreak, \* per account, the failed attempts persisted since the last reset
    rh,         \* the response and audit events of each session process's last
                \* call, a refresh or a logout
    client,     \* the EmployeeProvider of the portal page: its React state and
                \* the calls it has in flight
    localStorage, \* the three keys the page keeps in the browser
    last        \* the handler step taken last: its request and the stores before it

txnVars == <<txStore, auditLog, th, sh>>
authVars == <<empStore, lh, failStreak, rh>>
clientVars == <<client, localStorage>>
vars == <<now, txStore, auditLog, th, sh, empStore, lh, failStreak, rh, client, localStorage,
          last>>

PaymentEvents ==
    [type : {"TRANSACTION_VERIFIED", "TRANSACTION_REJECTED", "TRANSACTION_SUBMITTED_TO_SWIFT"},
     transactionId : TxnIds, employeeId : Employees]

AuditCall_Throws(delivered) == IF delivered THEN "returned" ELSE "thrown"

\* A call of the audit sink as its caller sees it. The sink is best-effort:
\* whether or not the event was delivered, the call returns.
AuditCall(delivered) == "returned"

logPaymentEvent_AlwaysVerified(type, t, e) ==
    LET ev == [type |-> "TRANSACTION_VERIFIED", transactionId |-> t, employeeId |-> e]
    IN  [auditLog EXCEPT ![ev] = @ + 1]

\* auditLogger.logPaymentEvent: one more event of this kind in the sink.
logPaymentEvent(type, t, e) ==
    LET ev == [type |-> type, transactionId |-> t, employeeId |-> e]
    IN  [auditLog EXCEPT ![ev] = @ + 1]

IdleHandler ==
    [pc |-> "idle", op |-> "none", actor |-> 0, id |-> MissingId, verified |-> FALSE,
     notes |-> NoNotes, ids |-> << >>, todo |-> {}, submitted |-> {},
     resp |-> [code |-> 0, kind |-> "none"]]

\* The record of a step of process p: the operation, the request it serves
\* and the two stores as the step found them.
Step(p, op, e, id, flag, notes, ids) ==
    [p |-> p, op |-> op, actor |-> e, id |-> id, flag |-> flag, notes |-> notes, ids |-> ids,
     store |-> txStore, log |-> auditLog]

\* res.status(code).json(...): the handler ends; what stays of it is the
\* operation, the transaction it named, what it submitted and its response.
Respond(h, code, kind) ==
    [IdleHandler EXCEPT !.pc = "done", !.op = h.op, !.id = h.id, !.submitted = h.submitted,
                        !.resp = [code |-> code, kind |-> kind]]

ValidObjectId(id) == id # BadId

\* Each process serves one request; the requests are numbered as they arrive.
Free(p) == th[p].pc = "idle"
Takes(p) == Free(p) /\ \A q \in Procs : q < p => ~Free(q)

(* --------------------- Transaction model methods ----------------------- *)
\* Mutant: the write is refused only on a transaction in a final status.
CanUpdateStatus_NotFinal(t, expected) ==
    txStore[t].status \notin {"COMPLETED", "REJECTED", "CANCELLED"}

\* Mutant: the write is a plain save that does not look at the stored status.
CanUpdateStatus_PlainSave(t, expected) == t \in TxnIds

\* The store's conditional update: the write applies only when the stored
\* status is the expected prior status.
CanUpdateStatus(t, expected) == txStore[t].status = expected

markAsVerified(t) ==
    [txStore EXCEPT ![t].status = "VERIFIED", ![t].verifiedAt = now]

markAsRejected(t, reason) ==
    [txStore EXCEPT ![t].status = "REJECTED", ![t].rejectionReason = reason]

markAsProcessing(t) ==
    [txStore EXCEPT ![t].status = "PROCESSING"]

(* ---------------- POST /transactions/:id/verify ------------------------ *)
\* Mutant: the limit is applied to rejections as well.
LimitExceeded_AlsoRejections(verified, amount, employee) ==
    /\ amount > employee.verificationLimit
    /\ employee.role # "ADMIN"
    /\ employee.role # "SUPERVISOR"

\* Mutant: the role test is inverted, so only ADMIN is held to the limit.
LimitExceeded_RoleInverted(verified, amount, employee) ==
    /\ verified
    /\ amount > employee.verificationLimit
    /\ employee.role = "ADMIN"

\* Mutant: an amount equal to the limit is refused too.
LimitExceeded_AtLimit(verified, amount, employee) ==
    /\ verified
    /\ amount >= employee.verificationLimit
    /\ employee.role # "ADMIN"
    /\ employee.role # "SUPERVISOR"

\* The permission check of the route: an approval above the actor's limit is
\* refused unless the role is ADMIN or SUPERVISOR.
LimitExceeded(verified, amount, employee) ==
    /\ verified
    /\ amount > employee.verificationLimit
    /\ employee.role # "ADMIN"
    /\ employee.role # "SUPERVISOR"

IsPending_NotRejected(transaction) == transaction.status # "REJECTED"

IsPending_OrVerified(transaction) == transaction.status \in {"PENDING", "VERIFIED"}

\* transaction.status !== 'PENDING' is the refusal.
IsPending(transaction) == transaction.status = "PENDING"

\* Request validation, findById and the checks on the document read, up to
\* the call of markAsVerified / markAsRejected.
VerifyRequest(p, e, id, flag, notes) ==
    /\ Takes(p)
    /\ LET h == [IdleHandler EXCEPT !.op = "verify", !.actor = e, !.id = id,
                                    !.verified = (flag = "true"),
                                    !.notes = IF flag = "true" THEN NoNotes ELSE notes]
           employee == EmployeeCtx(e)
       IN  th' = [th EXCEPT ![p] =
                IF ~ValidObjectId(id) THEN Respond(h, 400, "InvalidInput")
                ELSE IF flag \notin {"true", "false"} THEN Respond(h, 400, "InvalidInput")
                ELSE IF notes # NoNotes /\ notes.length > MaxNotesLength
                    THEN Respond(h, 400, "InvalidInput")
                ELSE IF id \notin TxnIds THEN Respond(h, 404, "NotFound")
                ELSE IF ~IsPending(txStore[id]) THEN Respond(h, 400, "InvalidState")
                ELSE IF LimitExceeded(h.verified, txStore[id].amount, employee)
                    THEN Respond(h, 403, "LimitExceeded")
                ELSE [h EXCEPT !.pc = "v_write"]]
    /\ last' = Step(p, "VerifyRequest", e, id, flag, notes, << >>)
    /\ UNCHANGED <<now, txStore, auditLog, sh, authVars, clientVars>>

\* The write of markAsVerified / markAsRejected, then the audit event and
\* the response.
\* delivered: whether the audit call of this step delivers its event.
VerifyWriteWith(p, delivered) ==
    /\ th[p].pc = "v_write"
    /\ LET h == th[p]
           t == h.id
       IN  IF CanUpdateStatus(t, "PENDING")
           THEN /\ txStore' = IF h.verified
                              THEN markAsVerified(t)
                              ELSE markAsRejected(t, IF h.notes # NoNotes THEN h.notes
                                                     ELSE DefaultReason)
                /\ auditLog' = IF delivered
                               THEN logPaymentEvent(IF h.verified THEN "TRANSACTION_VERIFIED"
                                                    ELSE "TRANSACTION_REJECTED", t, h.actor)
                               ELSE auditLog
                /\ th' = [th EXCEPT ![p] = IF AuditCall(delivered) = "thrown"
                                           THEN Respond(h, 500, "InternalFailure")
                                           ELSE Respond(h, 200, "Ok")]
           ELSE /\ th' = [th EXCEPT ![p] = Respond(h, 500, "InternalFailure")]
                /\ UNCHANGED <<txStore, auditLog>>
    /\ last' = Step(p, IF delivered THEN "VerifyWrite" ELSE "VerifyWriteAuditFails",
                     th[p].actor, th[p].id,
                     IF th[p].verified THEN "true" ELSE "false", th[p].notes, << >>)
    /\ UNCHANGED <<now, sh, authVars, clientVars>>

VerifyWrite(p) == VerifyWriteWith(p, TRUE)

VerifyWriteAuditFails(p) == VerifyWriteWith(p, FALSE)

(* ------------- POST /transactions/submit-to-swift ---------------------- *)
FindVerified_AnyStatus(ids) == {t \in TxnIds : t \in Range(ids)}

\* Transaction.find({_id: {$in: ids}, status: 'VERIFIED'})
FindVerified(ids) == {t \in TxnIds : t \in Range(ids) /\ txStore[t].status = "VERIFIED"}

\* Array.isArray(transactionIds)
IsArray(ids) == NotAnArray \notin Range(ids)

\* Mutant: the comparison of the two lengths lets a shorter result through.
BatchComplete_AtMost(transactions, ids) == Cardinality(transactions) <= Len(ids)

\* Every id of the request was found in VERIFIED status.
BatchComplete(transactions, ids) == Cardinality(transactions) = Len(ids)

\* Validation of the id list, the find, and the two checks on its result.
SubmitRequest(p, e, ids) ==
    /\ Takes(p)
    /\ LET h == [IdleHandler EXCEPT !.op = "submit", !.actor = e, !.ids = ids]
           transactions == FindVerified(ids)
       IN  th' = [th EXCEPT ![p] =
                IF ~IsArray(ids) \/ Len(ids) = 0 THEN Respond(h, 400, "InvalidInput")
                ELSE IF Len(ids) > MaxBatchSize THEN Respond(h, 400, "InvalidInput")
                ELSE IF \E i \in 1..Len(ids) : ~ValidObjectId(ids[i])
                    THEN Respond(h, 400, "InvalidInput")
                ELSE IF Cardinality(transactions) = 0 THEN Respond(h, 404, "NotFound")
                ELSE IF ~BatchComplete(transactions, ids)
                    THEN Respond(h, 400, "PartialBatchInvalid")
                ELSE [h EXCEPT !.pc = "s_write", !.ids = << >>, !.todo = transactions]]
    /\ last' = Step(p, "SubmitRequest", e, MissingId, "absent", NoNotes, ids)
    /\ UNCHANGED <<now, txStore, auditLog, sh, authVars, clientVars>>

\* One turn of the loop: markAsProcessing on the next transaction found, its
\* audit event, and the response after the last one.
SubmitWriteWith(p, delivered) ==
    /\ th[p].pc = "s_write"
    /\ LET h == th[p]
       IN  \E t \in h.todo :
             IF CanUpdateStatus(t, "VERIFIED")
             THEN /\ txStore' = markAsProcessing(t)
                  /\ auditLog' = IF delivered
                                 THEN logPaymentEvent("TRANSACTION_SUBMITTED_TO_SWIFT",
                                                      t, h.actor)
                                 ELSE auditLog
                  /\ LET h2 == [h EXCEPT !.todo = h.todo \ {t},
                                         !.submitted = h.submitted \cup {t}]
                     IN  th' = [th EXCEPT ![p] =
                                  IF AuditCall(delivered) = "thrown"
                                  THEN Respond(h2, 500, "InternalFailure")
                                  ELSE IF h2.todo = {} THEN Respond(h2, 200, "Ok") ELSE h2]
             ELSE /\ th' = [th EXCEPT ![p] = Respond(h, 500, "InternalFailure")]
                  /\ UNCHANGED <<txStore, auditLog>>
    /\ last' = Step(p, IF delivered THEN "SubmitWrite" ELSE "SubmitWriteAuditFails",
                     th[p].actor, MissingId, "absent", NoNotes, << >>)
    /\ UNCHANGED <<now, sh, authVars, clientVars>>

SubmitWrite(p) == SubmitWriteWith(p, TRUE)

SubmitWriteAuditFails(p) == SubmitWriteWith(p, FALSE)

(* ----------------------------- GET /statistics ------------------------- *)
NoCount == 0 - 1

\* The status each field of the response counts.
StatisticsQueries_Swapped ==
    [pending |-> "PENDING", verified |-> "PROCESSING", processing |-> "VERIFIED",
     completed |-> "COMPLETED", rejected |-> "REJECTED"]

StatisticsQueries ==
    [pending |-> "PENDING", verified |-> "VERIFIED", processing |-> "PROCESSING",
     completed |-> "COMPLETED", rejected |-> "REJECTED"]

StatisticsFields == {"pending", "verified", "processing", "completed", "rejected"}

\* Transaction.countDocuments({status})
countDocuments(status) == Cardinality({t \in TxnIds : txStore[t].status = status})

\* start is the collection as the call found it.
IdleStatistics ==
    [pc |-> "idle", counts |-> [f \in StatisticsFields |-> NoCount], start |-> << >>]

StatisticsStep(op) ==
    [p |-> 0, op |-> op, store |-> txStore, log |-> auditLog, emp |-> empStore]

\* The call arrives and sends its queries.
StatisticsRequest ==
    /\ sh.pc = "idle"
    /\ sh' = [sh EXCEPT !.pc = "reading", !.start = txStore]
    /\ last' = StatisticsStep("StatisticsRequest")
    /\ UNCHANGED <<now, txStore, auditLog, th, authVars, clientVars>>

\* The queries of Promise.all are answered one by one, in any order, each
\* from the collection as it is then; the response follows the last answer.
StatisticsRead(f) ==
    /\ sh.pc = "reading"
    /\ sh.counts[f] = NoCount
    /\ LET counts == [sh.counts EXCEPT ![f] = countDocuments(StatisticsQueries[f])]
       IN  sh' = [sh EXCEPT !.counts = counts,
                            !.pc = IF \A g \in StatisticsFields : counts[g] # NoCount
                                   THEN "done" ELSE "reading"]
    /\ last' = StatisticsStep("StatisticsRead")
    /\ UNCHANGED <<now, txStore, auditLog, th, authVars, clientVars>>

(* ============================ employee login =========================== *)
\* Strings the patterns look into are tuples of characters.
Upper == {"A", "B", "C", "D", "E", "F", "G", "H", "I", "J", "K", "L", "M",
          "N", "O", "P", "Q", "R", "S", "T", "U", "V", "W", "X", "Y", "Z"}
Lower == {"a", "b", "c", "d", "e", "f", "g", "h", "i", "j", "k", "l", "m",
          "n", "o", "p", "q", "r", "s", "t", "u", "v", "w", "x", "y", "z"}
Digits == {"0", "1", "2", "3", "4", "5", "6", "7", "8", "9"}

\* /^[a-zA-Z0-9_-]{3,30}$/
ValidUsername(u) ==
    /\ Len(u) >= 3 /\ Len(u) <= 30
    /\ \A i \in 1..Len(u) : u[i] \in Upper \cup Lower \cup Digits \cup {"_", "-"}

ValidEmployeeId_IgnoreCase(id) ==
    /\ Len(id) >= 6 /\ Len(id) <= 10
    /\ \A i \in 1..Len(id) : id[i] \in Upper \cup Lower \cup Digits

\* /^[A-Z0-9]{6,10}$/
ValidEmployeeId(id) ==
    /\ Len(id) >= 6 /\ Len(id) <= 10
    /\ \A i \in 1..Len(id) : id[i] \in Upper \cup Digits

\* !password || typeof password !== 'string'
ValidPassword(pw) == pw.value # "" /\ pw.type = "string"

\* The employees created in the collection: the demo employee first.
Usernames == << <<"j", "s", "m", "i", "t", "h">>, <<"a", "l", "e", "e">> >>
EmployeeIds == << <<"E", "M", "P", "0", "0", "1">>, <<"E", "M", "P", "0", "0", "2">> >>
PlainPasswords == <<"Demo123!@#", "Other456$%^">>
UsernameOf(a) == Usernames[((a - 1) % 2) + 1]
EmployeeIdOf(a) == EmployeeIds[((a - 1) % 2) + 1]
PasswordOf(a) == PlainPasswords[((a - 1) % 2) + 1]
SaltOf(a) == <<"salt", a>>

\* argon2.hash(password + salt): one value per password and salt.
Hash(password, salt) == <<"argon2id", password, salt>>

\* The bodies of a login request: for each employee and for an unknown
\* identity, well-formed credentials with the right and a wrong password;
\* an identity whose username and employee id belong to no one employee;
\* and one body of each malformed shape.
Str(v) == [type |-> "string", value |-> v]
UnknownUsername == <<"n", "o", "b", "o", "d", "y">>
UnknownEmployeeId == <<"E", "M", "P", "9", "9", "9">>
LoginInputs ==
    {[username |-> UsernameOf(a), employeeId |-> EmployeeIdOf(a), password |-> Str(pw)] :
        a \in Accounts, pw \in {PasswordOf(1), PasswordOf(2), "wrong"}}
    \cup {[username |-> UnknownUsername, employeeId |-> UnknownEmployeeId,
           password |-> Str("wrong")],
          [username |-> UsernameOf(1), employeeId |-> UnknownEmployeeId,
           password |-> Str(PasswordOf(1))],
          [username |-> <<"j", "$">>, employeeId |-> EmployeeIdOf(1),
           password |-> Str(PasswordOf(1))],
          [username |-> UsernameOf(1), employeeId |-> <<"e", "m", "p", "0", "0", "1">>,
           password |-> Str(PasswordOf(1))],
          [username |-> UsernameOf(1), employeeId |-> EmployeeIdOf(1), password |-> Str("")],
          [username |-> UsernameOf(1), employeeId |-> EmployeeIdOf(1),
           password |-> [type |-> "number", value |-> "12345"]]}

\* The bodies concurrent requests send: the credentials of the first
\* employee with the right and a wrong password, and an unknown identity.
ConcurrentLoginInputs ==
    {in \in LoginInputs :
        /\ ValidUsername(in.username) /\ ValidEmployeeId(in.employeeId)
        /\ ValidPassword(in.password)
        /\ in.username \in {UsernameOf(1), UnknownUsername}
        /\ in.password.value \in {PasswordOf(1), "wrong"}
        /\ in.username = UsernameOf(1) => in.employeeId = EmployeeIdOf(1)}

NoToken == [employeeId |-> 0, type |-> "none", issuer |-> "", audience |-> ""]

\* generateEmployeeToken
generateEmployeeToken(employeeId) ==
    [employeeId |-> employeeId, type |-> "employee_access",
     issuer |-> "secure-payments-portal", audience |-> "banking-employees"]

\* generateEmployeeRefreshToken
generateEmployeeRefreshToken(employeeId) ==
    [employeeId |-> employeeId, type |-> "employee_refresh",
     issuer |-> "secure-payments-portal", audience |-> "banking-employees"]

\* The document a handler holds: the lockout fields as loaded or assigned.
NoDoc == [failedLoginAttempts |-> 0, lockedUntil |-> NoTime]
IdleLogin ==
    [pc |-> "idle", account |-> 0, doc |-> NoDoc, lookedUp |-> FALSE, validated |-> FALSE,
     passwordOk |-> FALSE,
     resp |-> [code |-> 0, error |-> "", employee |-> 0, token |-> NoToken,
               refreshToken |-> NoToken],
     events |-> << >>]

\* logAuthenticationEvent
AuthEvent(type, success, reason) == [type |-> type, success |-> success, reason |-> reason]

isAccountLocked_Inclusive(doc, t) == doc.lockedUntil # NoTime /\ doc.lockedUntil >= t

isAccountLocked_Inverted(doc, t) == doc.lockedUntil # NoTime /\ doc.lockedUntil < t

\* The virtual isAccountLocked, at time t.
isAccountLocked(doc, t) == doc.lockedUntil # NoTime /\ doc.lockedUntil > t

validatePassword_Unsalted(employee, password) ==
    Hash(password, << >>) = employee.passwordHash

\* validatePassword: argon2.verify(passwordHash, password + salt)
validatePassword(employee, password) == Hash(password, employee.salt) = employee.passwordHash

FindActive_AnyStatus(username, employeeId) ==
    {a \in Accounts : UsernameOf(a) = username /\ EmployeeIdOf(a) = employeeId}

\* Employee.findOne({username, employeeId, isActive: true})
FindActive(username, employeeId) ==
    {a \in Accounts : /\ UsernameOf(a) = username
                      /\ EmployeeIdOf(a) = employeeId
                      /\ empStore[a].isActive}

incrementFailedAttempts_ExactlyFive(doc, t) ==
    [failedLoginAttempts |-> doc.failedLoginAttempts + 1,
     lockedUntil |-> IF doc.failedLoginAttempts + 1 = maxAttempts /\ ~isAccountLocked(doc, t)
                     THEN t + lockTime ELSE doc.lockedUntil]

incrementFailedAttempts_OffByOne(doc, t) ==
    [failedLoginAttempts |-> doc.failedLoginAttempts + 1,
     lockedUntil |-> IF doc.failedLoginAttempts + 1 > maxAttempts /\ ~isAccountLocked(doc, t)
                     THEN t + lockTime ELSE doc.lockedUntil]

\* The in-memory effect of incrementFailedAttempts at time t.
incrementFailedAttempts(doc, t) ==
    [failedLoginAttempts |-> doc.failedLoginAttempts + 1,
     lockedUntil |-> IF doc.failedLoginAttempts + 1 >= maxAttempts /\ ~isAccountLocked(doc, t)
                     THEN t + lockTime ELSE doc.lockedUntil]

resetFailedAttempts_KeepsLock(doc) ==
    [failedLoginAttempts |-> 0, lockedUntil |-> doc.lockedUntil]

\* The in-memory effect of resetFailedAttempts.
resetFailedAttempts(doc) == [failedLoginAttempts |-> 0, lockedUntil |-> NoTime]

Save_Skipped(a, old, new) == empStore

\* save(): the paths whose value the method changed are written, the other
\* stored fields stay as they are in the collection.
Save(a, old, new) ==
    [empStore EXCEPT ![a] =
        [f \in DOMAIN empStore[a] |->
            IF f \in DOMAIN new /\ new[f] # old[f] THEN new[f] ELSE empStore[a][f]]]

InvalidCredentials_LeaksReason(h, reason) ==
    [IdleLogin EXCEPT !.pc = "done", !.lookedUp = TRUE, !.validated = h.validated,
              !.resp = [code |-> 401, error |-> reason, employee |-> 0,
                        token |-> NoToken, refreshToken |-> NoToken],
              !.events = Append(h.events, AuthEvent("EMPLOYEE_LOGIN_FAILED", FALSE, reason))]

\* The 401 of the catch block and of a wrong password.
InvalidCredentials(h, reason) ==
    [IdleLogin EXCEPT !.pc = "done", !.lookedUp = TRUE, !.validated = h.validated,
              !.resp = [code |-> 401, error |-> "Invalid credentials", employee |-> 0,
                        token |-> NoToken, refreshToken |-> NoToken],
              !.events = Append(h.events, AuthEvent("EMPLOYEE_LOGIN_FAILED", FALSE, reason))]

BadRequest(h, error) ==
    [IdleLogin EXCEPT !.pc = "done",
              !.resp = [code |-> 400, error |-> error, employee |-> 0,
                        token |-> NoToken, refreshToken |-> NoToken]]

LoginStep(p, op, in) ==
    [p |-> p, op |-> op, in |-> in, account |-> lh[p].account, emp |-> empStore,
     time |-> now, streak |-> failStreak]

NoInput == [username |-> << >>, employeeId |-> << >>, password |-> Str("")]

\* POST /login up to the await of validatePassword: the validation of the
\* body and findByCredentials with its lock check.
LoginRequest(p, in) ==
    /\ lh[p].pc \in {"idle", "done"}
    /\ LET found == FindActive(in.username, in.employeeId)
           h == IdleLogin
       IN  lh' = [lh EXCEPT ![p] =
                IF ~ValidUsername(in.username) THEN BadRequest(h, "Invalid username format")
                ELSE IF ~ValidEmployeeId(in.employeeId)
                    THEN BadRequest(h, "Invalid employee ID format")
                ELSE IF ~ValidPassword(in.password) THEN BadRequest(h, "Password is required")
                ELSE IF found = {} THEN InvalidCredentials(h, "Invalid credentials")
                ELSE LET a == CHOOSE x \in found : TRUE
                     IN  IF isAccountLocked(empStore[a], now)
                         THEN InvalidCredentials(h,
                                "Account is temporarily locked due to too many failed attempts")
                         ELSE [h EXCEPT !.pc = "validate", !.account = a,
                                        !.doc = [failedLoginAttempts |->
                                                    empStore[a].failedLoginAttempts,
                                                 lockedUntil |-> empStore[a].lockedUntil],
                                        !.lookedUp = TRUE, !.validated = TRUE,
                                        !.passwordOk =
                                            validatePassword(empStore[a], in.password.value)]]
    /\ last' = LoginStep(p, "LoginRequest", in)
    /\ UNCHANGED <<now, empStore, failStreak, rh, txnVars, clientVars>>

\* The wrong-password branch: incrementFailedAttempts with its save, the
\* audit event and the 401.
LoginFailWith(p, delivered) ==
    /\ lh[p].pc = "validate"
    /\ ~lh[p].passwordOk
    /\ LET h == lh[p]
           doc == incrementFailedAttempts(h.doc, now)
       IN  /\ empStore' = Save(h.account, h.doc, doc)
           /\ failStreak' = [failStreak EXCEPT ![h.account] = @ + 1]
           /\ lh' = [lh EXCEPT ![p] =
                  IF AuditCall(delivered) = "thrown"
                  THEN InvalidCredentials([h EXCEPT !.doc = doc], "audit failed")
                  ELSE IF delivered
                      THEN InvalidCredentials([h EXCEPT !.doc = doc], "Invalid password")
                      ELSE [InvalidCredentials([h EXCEPT !.doc = doc], "Invalid password")
                                EXCEPT !.events = h.events]]
    /\ last' = LoginStep(p, IF delivered THEN "LoginFail" ELSE "LoginFailAuditFails",
                         NoInput)
    /\ UNCHANGED <<now, rh, txnVars, clientVars>>

LoginFail(p) == LoginFailWith(p, TRUE)

LoginFailAuditFails(p) == LoginFailWith(p, FALSE)

\* The right-password branch, first await: resetFailedAttempts with its save.
LoginReset(p) ==
    /\ lh[p].pc = "validate"
    /\ lh[p].passwordOk
    /\ LET h == lh[p]
           doc == resetFailedAttempts(h.doc)
       IN  /\ empStore' = Save(h.account, h.doc, doc)
           /\ failStreak' = [failStreak EXCEPT ![h.account] = 0]
           /\ lh' = [lh EXCEPT ![p] = [h EXCEPT !.pc = "lastLogin", !.doc = doc]]
    /\ last' = LoginStep(p, "LoginReset", NoInput)
    /\ UNCHANGED <<now, rh, txnVars, clientVars>>

\* updateLastLogin with its save, then the tokens, the audit event and the
\* 200.
LoginUpdateLastWith(p, delivered) ==
    /\ lh[p].pc = "lastLogin"
    /\ LET h == lh[p]
           a == h.account
       IN  /\ empStore' = [empStore EXCEPT ![a].lastLoginAt = now]
           /\ lh' = [lh EXCEPT ![p] =
                  IF AuditCall(delivered) = "thrown"
                  THEN InvalidCredentials(h, "audit failed")
                  ELSE [IdleLogin EXCEPT !.pc = "done", !.lookedUp = TRUE,
                                    !.validated = h.validated,
                            !.resp = [code |-> 200, error |-> "", employee |-> a,
                                      token |-> generateEmployeeToken(a),
                                      refreshToken |-> generateEmployeeRefreshToken(a)],
                            !.events =
                                IF delivered
                                THEN Append(h.events,
                                            AuthEvent("EMPLOYEE_LOGIN_SUCCESS", TRUE, ""))
                                ELSE h.events]]
    /\ last' = LoginStep(p, IF delivered THEN "LoginUpdateLast"
                            ELSE "LoginUpdateLastAuditFails", NoInput)
    /\ UNCHANGED <<now, failStreak, rh, txnVars, clientVars>>

LoginUpdateLast(p) == LoginUpdateLastWith(p, TRUE)

LoginUpdateLastAuditFails(p) == LoginUpdateLastWith(p, FALSE)

(* ------------------------- the pre('save') hook ------------------------ *)
\* crypto.randomBytes(32): the values a new salt is drawn from.
Salts == {<<"salt", k>> : k \in 1..NumSalts}

preSave_HashBeforeSalt(doc, salt) ==
    [doc EXCEPT !.passwordHash = Hash(doc.passwordHash, doc.salt), !.salt = salt]

\* The hook on a document whose passwordHash path was modified and holds the
\* plaintext: a new salt, and the hash of the plaintext with it.
preSave(doc, salt) ==
    [doc EXCEPT !.salt = salt, !.passwordHash = Hash(doc.passwordHash, salt)]

\* The password of employee a is set: passwordHash is assigned the plaintext
\* and the document is saved.
SetPassword(a, pw) ==
    /\ \E salt \in Salts :
          empStore' = [empStore EXCEPT
                          ![a] = preSave([empStore[a] EXCEPT !.passwordHash = pw], salt)]
    /\ last' = [p |-> 0, op |-> "SetPassword", in |-> NoInput, account |-> a,
                emp |-> empStore, time |-> now, streak |-> failStreak, password |-> pw]
    /\ UNCHANGED <<now, lh, failStreak, rh, txnVars, clientVars>>

(* ------------------------ a save() that rejects ------------------------ *)
\* The save of one of the three document methods rejects: nothing of that
\* save is written, the error reaches the catch block of POST /login, which
\* logs it and answers the 401. last keeps what the step before recorded, so
\* last.emp is the collection before the handler's previous write, if it
\* made one.
SaveRejected(p) ==
    /\ lh' = [lh EXCEPT ![p] = InvalidCredentials(lh[p], "save failed")]
    /\ UNCHANGED <<now, empStore, failStreak, rh, txnVars, clientVars>>

\* validatePassword: argon2.verify throws, the method rethrows 'Password
\* validation failed' and the catch block of POST /login answers.
LoginValidateError(p) ==
    /\ lh[p].pc = "validate"
    /\ lh' = [lh EXCEPT ![p] = InvalidCredentials(lh[p], "Password validation failed")]
    /\ last' = [last EXCEPT !.op = "LoginValidateError"]
    /\ UNCHANGED <<now, empStore, failStreak, rh, txnVars, clientVars>>

\* incrementFailedAttempts: await this.save() rejects.
LoginFailStorageError(p) ==
    /\ lh[p].pc = "validate"
    /\ ~lh[p].passwordOk
    /\ SaveRejected(p)
    /\ last' = [last EXCEPT !.op = "LoginFailStorageError"]

\* resetFailedAttempts: await this.save() rejects.
LoginResetStorageError(p) ==
    /\ lh[p].pc = "validate"
    /\ lh[p].passwordOk
    /\ SaveRejected(p)
    /\ last' = [last EXCEPT !.op = "LoginResetStorageError"]

\* updateLastLogin: await this.save() rejects, after the save of
\* resetFailedAttempts went through.
LoginUpdateLastStorageError(p) ==
    /\ lh[p].pc = "lastLogin"
    /\ SaveRejected(p)
    /\ last' = [last EXCEPT !.op = "LoginUpdateLastStorageError"]

(* ============================ POST /refresh ============================ *)
\* A token as a request presents it: its claims, whether its signature
\* verifies under JWT_SECRET and whether its expiry has passed.
Presented(claims, signature, expired) ==
    [claims |-> claims, signature |-> signature, expired |-> expired]

\* A subject no employee document has.
UnknownSubject == NumAccounts + 1

\* The bodies of a refresh request: the refresh token and the access token
\* of each employee as issued, a refresh token of an unknown subject, one
\* with a bad signature, an expired one, validly signed ones of another
\* issuer and of another audience, and a body without a token.
RefreshInputs ==
    {Presented(generateEmployeeRefreshToken(a), "valid", FALSE) :
        a \in Accounts \cup {UnknownSubject}}
    \cup {Presented(generateEmployeeToken(a), "valid", FALSE) : a \in Accounts}
    \cup {Presented(generateEmployeeRefreshToken(1), "bad", FALSE),
          Presented(generateEmployeeRefreshToken(1), "valid", TRUE),
          Presented([generateEmployeeRefreshToken(1) EXCEPT !.issuer = "other-portal"],
                    "valid", FALSE),
          Presented([generateEmployeeRefreshToken(1) EXCEPT !.audience = "customers"],
                    "valid", FALSE),
          Presented(NoToken, "none", FALSE)}

\* jwt.verify(refreshToken, process.env.JWT_SECRET): the signature and the
\* expiry; no issuer or audience option is passed.
jwtVerify(token) == token.signature = "valid" /\ ~token.expired

\* Employee.findById
findById(id) == {a \in Accounts : a = id}

IsRefreshType_AnyEmployeeToken(decoded) ==
    decoded.type \in {"employee_access", "employee_refresh"}

\* decoded.type !== 'employee_refresh' is the refusal.
IsRefreshType(decoded) == decoded.type = "employee_refresh"

NotFoundOrInactive_OrLocked(employee) ==
    \A a \in employee : ~empStore[a].isActive \/ isAccountLocked(empStore[a], now)

NotFoundOrInactive_NotFound(employee) == employee = {}

\* !employee || !employee.isActive
NotFoundOrInactive(employee) == \A a \in employee : ~empStore[a].isActive

NoRefresh ==
    [resp |-> [code |-> 0, error |-> "", employee |-> 0, token |-> NoToken,
               refreshToken |-> NoToken],
     events |-> << >>]

RefreshRefused(error, events) ==
    [resp |-> [code |-> 401, error |-> error, employee |-> 0, token |-> NoToken,
               refreshToken |-> NoToken],
     events |-> events]

\* The handler of POST /refresh: its one read of the store is findById, and
\* nothing is written. The data of its 200 are the two tokens; no employee
\* is among them.
RefreshWith(r, in, delivered) ==
    /\ rh' = [rh EXCEPT ![r] =
            IF ~jwtVerify(in)
            THEN RefreshRefused("Invalid refresh token",
                                << AuthEvent("EMPLOYEE_TOKEN_REFRESH_FAILED", FALSE,
                                             "jwt error") >>)
            ELSE IF ~IsRefreshType(in.claims)
                THEN RefreshRefused("Invalid token type", << >>)
            ELSE IF NotFoundOrInactive(findById(in.claims.employeeId))
                THEN RefreshRefused("Employee not found or inactive", << >>)
            ELSE IF AuditCall(delivered) = "thrown"
                THEN RefreshRefused("Invalid refresh token", << >>)
            ELSE [resp |-> [code |-> 200, error |-> "", employee |-> 0,
                            token |-> generateEmployeeToken(in.claims.employeeId),
                            refreshToken |->
                                generateEmployeeRefreshToken(in.claims.employeeId)],
                  events |-> IF delivered
                             THEN << AuthEvent("EMPLOYEE_TOKEN_REFRESH", TRUE, "") >>
                             ELSE << >>]]
    /\ last' = [p |-> r, op |-> IF delivered THEN "Refresh" ELSE "RefreshAuditFails",
                in |-> in, account |-> 0, emp |-> empStore,
                time |-> now, streak |-> failStreak]
    /\ UNCHANGED <<now, empStore, lh, failStreak, txnVars, clientVars>>

Refresh(r, in) == RefreshWith(r, in, TRUE)

RefreshAuditFails(r, in) == RefreshWith(r, in, FALSE)

(* ============================ POST /logout ============================= *)
\* logAuthenticationEvent('EMPLOYEE_LOGOUT', req, true, {employeeId})
LogoutEvent(a) ==
    [type |-> "EMPLOYEE_LOGOUT", success |-> TRUE, reason |-> "", employeeId |-> a]

Logout_Deactivates(r, a) ==
    /\ rh' = [rh EXCEPT ![r] =
            [resp |-> [code |-> 200, error |-> "", employee |-> 0, token |-> NoToken,
                       refreshToken |-> NoToken],
             events |-> << LogoutEvent(a) >>]]
    /\ empStore' = [empStore EXCEPT ![a].isActive = FALSE]
    /\ last' = [p |-> r, op |-> "Logout", in |-> NoInput, account |-> a,
                emp |-> empStore, time |-> now, streak |-> failStreak,
                store |-> txStore, log |-> auditLog]
    /\ UNCHANGED <<now, lh, failStreak, txnVars, clientVars>>

\* The handler of POST /logout for the employee a the authorization gate
\* resolved the access token to: one audit event and the 200.
Logout(r, a) ==
    /\ rh' = [rh EXCEPT ![r] =
            [resp |-> [code |-> 200, error |-> "", employee |-> 0, token |-> NoToken,
                       refreshToken |-> NoToken],
             events |-> << LogoutEvent(a) >>]]
    /\ last' = [p |-> r, op |-> "Logout", in |-> NoInput, account |-> a,
                emp |-> empStore, time |-> now, streak |-> failStreak,
                store |-> txStore, log |-> auditLog]
    /\ UNCHANGED <<now, empStore, lh, failStreak, txnVars, clientVars>>

\* An administrator switches an employee off, or on again, in the
\* collection.
Deactivate(a) ==
    /\ empStore[a].isActive
    /\ empStore' = [empStore EXCEPT ![a].isActive = FALSE]
    /\ last' = [last EXCEPT !.op = "Deactivate"]
    /\ UNCHANGED <<now, lh, failStreak, rh, txnVars, clientVars>>

Activate(a) ==
    /\ ~empStore[a].isActive
    /\ empStore' = [empStore EXCEPT ![a].isActive = TRUE]
    /\ last' = [last EXCEPT !.op = "Activate"]
    /\ UNCHANGED <<now, lh, failStreak, rh, txnVars, clientVars>>

\* Time passes.
Tick ==
    /\ now + TickMinutes <= MaxTime
    /\ now' = now + TickMinutes
    /\ last' = [last EXCEPT !.op = "Tick"]
    /\ UNCHANGED <<txnVars, authVars, clientVars>>

(* ===================== the employee portal page ======================== *)
\* null: the employee of the React state before a session, and what getItem
\* answers for a key localStorage does not hold.
Null == 0

\* undefined: what destructuring yields for a field the data lack, and, as
\* the text JSON.stringify makes of it, what setItem then leaves under the
\* key.
Undefined == 0 - 1

\* useState(null), useState(null), useState(true): the provider before its
\* effect has run. restore is the position of the effect and of its promise
\* chain, storedToken and storedRefreshToken the values the effect's
\* closure holds, login
\* the position of a login call, wasAuthenticated the isAuthenticated of
\* the render that call was made from.
Unmounted ==
    [employee |-> Null, token |-> NoToken, loading |-> TRUE, restore |-> "unmounted",
     storedToken |-> NoToken, storedRefreshToken |-> NoToken, login |-> "idle",
     wasAuthenticated |-> FALSE]

\* localStorage with none of employeeToken, employeeRefreshToken, employee.
EmptyStorage ==
    [employeeToken |-> NoToken, employeeRefreshToken |-> NoToken, employee |-> Null]

\* The authorization gate: an access token resolves to its employee, any
\* other token to none.
employeeAuth(token) ==
    IF /\ token.type = "employee_access"
       /\ token.employeeId \in Accounts
       /\ empStore[token.employeeId].isActive
    THEN token.employeeId ELSE 0

\* isAuthenticated: !!employee && !!token
isAuthenticated(c) == c.employee \notin {Null, Undefined} /\ c.token # NoToken

ProtectedEmployeeRoute_NoSpinner(c) ==
    IF ~isAuthenticated(c) THEN "Navigate to /employee/login" ELSE "children"

\* What ProtectedEmployeeRoute returns.
ProtectedEmployeeRoute(c) ==
    IF c.loading THEN "LoadingSpinner"
    ELSE IF ~isAuthenticated(c) THEN "Navigate to /employee/login"
    ELSE "children"

\* A field destructured from the data of a response: its value, or
\* undefined where the data carry no such field.
DataField(v) == IF v = 0 THEN Undefined ELSE v

\* logout, on the React state: setEmployee(null) and setToken(null). Its
\* three removeItem leave EmptyStorage; the outcome of its call of
\* employeeAPI.logout() is ignored.
logout(c) == [c EXCEPT !.employee = Null, !.token = NoToken]

\* A step of the page: the React state and localStorage before it.
ClientStep(op) ==
    [p |-> 1, op |-> op, client |-> client, storage |-> localStorage, emp |-> empStore,
     time |-> now]

\* The effect of EmployeeProvider, up to its setLoading(false): it reads the
\* three keys and, with a token and an employee stored, takes them for the
\* session and asks the server for the current employee. A stored employee
\* JSON.parse cannot read makes it throw into the catch, which calls
\* logout.
Mount ==
    /\ client.restore = "unmounted"
    /\ LET storedToken == localStorage.employeeToken
           storedEmployee == localStorage.employee
           storedRefreshToken == localStorage.employeeRefreshToken
       IN  IF storedToken # NoToken /\ storedEmployee # Null
           THEN IF storedEmployee = Undefined
                THEN /\ client' = [logout([client EXCEPT !.token = storedToken])
                                      EXCEPT !.loading = FALSE, !.restore = "idle"]
                     /\ localStorage' = EmptyStorage
                ELSE /\ client' = [client EXCEPT !.token = storedToken,
                                                 !.employee = storedEmployee,
                                                 !.loading = FALSE, !.restore = "verify",
                                                 !.storedToken = storedToken,
                                                 !.storedRefreshToken = storedRefreshToken]
                     /\ UNCHANGED localStorage
           ELSE /\ client' = [client EXCEPT !.loading = FALSE, !.restore = "idle"]
                /\ UNCHANGED localStorage
    /\ last' = ClientStep("Mount")
    /\ UNCHANGED <<now, txnVars, authVars>>

\* getCurrentEmployee resolves: the gate of GET /me passed the stored token
\* and the handler answered the employee.
GetCurrentEmployeeResolved ==
    /\ client.restore = "verify"
    /\ employeeAuth(client.storedToken) # 0
    /\ client' = [client EXCEPT !.employee = employeeAuth(client.storedToken),
                                !.restore = "idle"]
    /\ last' = ClientStep("GetCurrentEmployeeResolved")
    /\ UNCHANGED <<now, localStorage, txnVars, authVars>>

\* getCurrentEmployee rejects, the stored token having expired or its
\* employee being switched off: with a refresh token in the closure the
\* refresh call is sent, without one logout is called.
GetCurrentEmployeeRejected ==
    /\ client.restore = "verify"
    /\ IF client.storedRefreshToken # NoToken
       THEN /\ client' = [client EXCEPT !.restore = "refresh"]
            /\ rh' = [rh EXCEPT ![1] = NoRefresh]
            /\ UNCHANGED localStorage
       ELSE /\ client' = [logout(client) EXCEPT !.restore = "idle"]
            /\ localStorage' = EmptyStorage
            /\ UNCHANGED rh
    /\ last' = ClientStep("GetCurrentEmployeeRejected")
    /\ UNCHANGED <<now, empStore, lh, failStreak, txnVars>>

\* The server handles the refresh call of the page: the stored refresh
\* token, expired by now or not.
RefreshServed ==
    /\ client.restore = "refresh"
    /\ rh[1] = NoRefresh
    /\ \E expired \in BOOLEAN :
         Refresh(1, Presented(client.storedRefreshToken, "valid", expired))

\* The promise of employeeAPI.refreshToken settles: with success and data
\* the three fields are destructured from the data, set and stored; a
\* rejection and a response without success call logout.
RefreshTokenSettled ==
    /\ client.restore = "refresh"
    /\ rh[1] # NoRefresh
    /\ LET resp == rh[1].resp
       IN  IF resp.code = 200
           THEN /\ client' = [client EXCEPT !.token = resp.token,
                                            !.employee = DataField(resp.employee),
                                            !.restore = "idle"]
                /\ localStorage' = [employeeToken |-> resp.token,
                                    employeeRefreshToken |-> resp.refreshToken,
                                    employee |-> DataField(resp.employee)]
                /\ last' = ClientStep("RefreshResolved")
           ELSE /\ client' = [logout(client) EXCEPT !.restore = "idle"]
                /\ localStorage' = EmptyStorage
                /\ last' = ClientStep("RefreshFailed")
    /\ UNCHANGED <<now, txnVars, authVars>>

\* login, up to its await: setLoading(true) and the request.
LoginCall ==
    /\ client.restore # "unmounted"
    /\ client.login = "idle"
    /\ lh[1].pc \in {"idle", "done"}
    /\ client' = [client EXCEPT !.loading = TRUE, !.login = "pending",
                                !.wasAuthenticated = isAuthenticated(client)]
    /\ lh' = [lh EXCEPT ![1] = IdleLogin]
    /\ last' = ClientStep("LoginCall")
    /\ UNCHANGED <<now, localStorage, empStore, failStreak, rh, txnVars>>

\* The server takes up the login request of the page.
LoginServed(in) ==
    /\ client.login = "pending"
    /\ lh[1].pc = "idle"
    /\ LoginRequest(1, in)

\* login after its await: a response with success and data sets and stores
\* the session, any other outcome is thrown on; finally setLoading(false).
LoginSettled ==
    /\ client.login = "pending"
    /\ lh[1].pc = "done"
    /\ LET resp == lh[1].resp
       IN  IF resp.code = 200
           THEN /\ client' = [client EXCEPT !.employee = resp.employee,
                                            !.token = resp.token,
                                            !.loading = FALSE, !.login = "idle"]
                /\ localStorage' = [employeeToken |-> resp.token,
                                    employeeRefreshToken |-> resp.refreshToken,
                                    employee |-> resp.employee]
                /\ last' = ClientStep("LoginResolved")
           ELSE /\ client' = [client EXCEPT !.loading = FALSE, !.login = "idle"]
                /\ UNCHANGED localStorage
                /\ last' = ClientStep("LoginFailed")
    /\ UNCHANGED <<now, txnVars, authVars>>

\* logout, called from the page.
LogoutCall ==
    /\ client.restore # "unmounted"
    /\ client' = logout(client)
    /\ localStorage' = EmptyStorage
    /\ last' = ClientStep("logout")
    /\ UNCHANGED <<now, txnVars, authVars>>

\* The page is loaded anew: the React state starts over, localStorage
\* stays, and what the old page had in flight is answered to nobody.
Reload ==
    /\ client.restore # "unmounted"
    /\ client' = Unmounted
    /\ last' = ClientStep("Reload")
    /\ UNCHANGED <<now, localStorage, txnVars, authVars>>

(* ------------------------------ system --------------------------------- *)
Init ==
    /\ now = 1
    /\ \E st \in [TxnIds -> InitStatuses] :
         txStore = [t \in TxnIds |->
                      [status |-> st[t], amount |-> AmountOf(t),
                       verifiedAt |-> IF st[t] \in {"VERIFIED", "PROCESSING", "COMPLETED"}
                                      THEN 0 ELSE NoTime,
                       rejectionReason |-> IF st[t] = "REJECTED" THEN DefaultReason
                                           ELSE NoNotes]]
    /\ auditLog = [ev \in PaymentEvents |-> 0]
    /\ th = [p \in Procs |-> IdleHandler]
    /\ sh = IdleStatistics
    /\ empStore = [a \in Accounts |->
                     [isActive |-> TRUE, failedLoginAttempts |-> 0, lockedUntil |-> NoTime,
                      lastLoginAt |-> NoTime, salt |-> SaltOf(a),
                      passwordHash |-> Hash(PasswordOf(a), SaltOf(a))]]
    /\ lh = [p \in LoginProcs |-> IdleLogin]
    /\ failStreak = [a \in Accounts |-> 0]
    /\ rh = [r \in RefreshProcs |-> NoRefresh]
    /\ client = Unmounted
    /\ localStorage = EmptyStorage
    /\ last = [p |-> 0, op |-> "none", actor |-> 0, id |-> MissingId, flag |-> "absent",
               notes |-> NoNotes, ids |-> << >>, store |-> txStore, log |-> auditLog]

NextTxn ==
    \/ \E p \in Procs, e \in Employees, b \in VerifyInputs :
          VerifyRequest(p, e, b.id, b.flag, b.notes)
    \/ \E p \in Procs : VerifyWrite(p)
    \/ \E p \in Procs, e \in Employees, ids \in BatchInputs : SubmitRequest(p, e, ids)
    \/ \E p \in Procs : SubmitWrite(p)

SpecTxn == Init /\ [][NextTxn]_vars

\* A statistics call while one employee verifies or rejects.
NextStats ==
    \/ \E e \in Employees, b \in VerifyInputs : VerifyRequest(1, e, b.id, b.flag, b.notes)
    \/ VerifyWrite(1)
    \/ StatisticsRequest
    \/ \E f \in StatisticsFields : StatisticsRead(f)

SpecStats == Init /\ [][NextStats]_vars

\* The login service starts with no transaction on file to be handled.
InitAuth == Init /\ \A t \in TxnIds : txStore[t].status = "COMPLETED"

\* The login service under concurrent requests.
NextAuth ==
    \/ \E p \in LoginProcs, in \in ConcurrentLoginInputs : LoginRequest(p, in)
    \/ \E p \in LoginProcs : LoginFail(p)
    \/ \E p \in LoginProcs : LoginReset(p)
    \/ \E p \in LoginProcs : LoginUpdateLast(p)
    \/ Tick

SpecAuth == InitAuth /\ [][NextAuth]_vars

\* The login service serving one request at a time.
NextAuthSeq ==
    \/ \E in \in LoginInputs : LoginRequest(1, in)
    \/ LoginFail(1)
    \/ LoginReset(1)
    \/ LoginUpdateLast(1)
    \/ Tick

SpecAuthSeq == InitAuth /\ [][NextAuthSeq]_vars

\* One transaction waits for verification and one, verified, for submission.
InitAudit ==
    /\ Init
    /\ txStore[1].status = "PENDING"
    /\ txStore[2].status = "VERIFIED"

\* One employee's calls of every audited operation, each audit call of which
\* may fail to deliver its event.
NextAudit ==
    \/ \E e \in Employees, b \in VerifyInputs : VerifyRequest(1, e, b.id, b.flag, b.notes)
    \/ VerifyWrite(1)
    \/ VerifyWriteAuditFails(1)
    \/ \E e \in Employees, ids \in BatchInputs : SubmitRequest(1, e, ids)
    \/ SubmitWrite(1)
    \/ SubmitWriteAuditFails(1)
    \/ \E in \in ConcurrentLoginInputs : LoginRequest(1, in)
    \/ LoginFail(1)
    \/ LoginFailAuditFails(1)
    \/ LoginReset(1)
    \/ LoginUpdateLast(1)
    \/ LoginUpdateLastAuditFails(1)
    \/ \E in \in RefreshInputs : Refresh(1, in)
    \/ \E in \in RefreshInputs : RefreshAuditFails(1, in)

SpecAudit == InitAudit /\ [][NextAudit]_vars

\* The demo employee's session: EMP001/jsmith, role EMPLOYEE with the default
\* limit, and a PENDING transaction of amount 500 on file.
DemoEmployee == 1
DemoTxn == 1
DemoAmount == 500

InitScenario ==
    /\ now = 1
    /\ \E st \in {"PENDING", "VERIFIED"} :
         txStore = [t \in TxnIds |->
                      [status |-> IF t = DemoTxn THEN "PENDING" ELSE st,
                       amount |-> IF t = DemoTxn THEN DemoAmount ELSE AmountOf(t),
                       verifiedAt |-> IF t # DemoTxn /\ st = "VERIFIED" THEN 0 ELSE NoTime,
                       rejectionReason |-> NoNotes]]
    /\ auditLog = [ev \in PaymentEvents |-> 0]
    /\ th = [p \in Procs |-> IdleHandler]
    /\ sh = IdleStatistics
    /\ empStore = [a \in Accounts |->
                     [isActive |-> TRUE, failedLoginAttempts |-> 0, lockedUntil |-> NoTime,
                      lastLoginAt |-> NoTime, salt |-> SaltOf(a),
                      passwordHash |-> Hash(PasswordOf(a), SaltOf(a))]]
    /\ lh = [p \in LoginProcs |-> IdleLogin]
    /\ failStreak = [a \in Accounts |-> 0]
    /\ rh = [r \in RefreshProcs |-> NoRefresh]
    /\ client = Unmounted
    /\ localStorage = EmptyStorage
    /\ last = [p |-> 0, op |-> "none", actor |-> 0, id |-> MissingId, flag |-> "absent",
               notes |-> NoNotes, ids |-> << >>, store |-> txStore, log |-> auditLog]

\* No handler is in the middle of a call.
AtRest ==
    /\ lh[1].pc \in {"idle", "done"}
    /\ \A p \in Procs : th[p].pc \in {"idle", "done"}

\* The calls of the session are made one after the other, the protected ones
\* with the access token of the last login.
ScenarioLogin(in) == AtRest /\ LoginRequest(1, in)

ScenarioVerify(p, b) ==
    /\ AtRest
    /\ employeeAuth(lh[1].resp.token) # 0
    /\ VerifyRequest(p, employeeAuth(lh[1].resp.token), b.id, b.flag, b.notes)

ScenarioSubmit(p, ids) ==
    /\ AtRest
    /\ employeeAuth(lh[1].resp.token) # 0
    /\ SubmitRequest(p, employeeAuth(lh[1].resp.token), ids)

NextScenario ==
    \/ \E in \in LoginInputs : ScenarioLogin(in)
    \/ LoginFail(1)
    \/ LoginReset(1)
    \/ LoginUpdateLast(1)
    \/ \E p \in Procs, b \in VerifyInputs : ScenarioVerify(p, b)
    \/ \E p \in Procs : VerifyWrite(p)
    \/ \E p \in Procs, ids \in BatchInputs : ScenarioSubmit(p, ids)
    \/ \E p \in Procs : SubmitWrite(p)

SpecScenario == InitScenario /\ [][NextScenario]_vars

\* Logins served one at a time while passwords are set.
NextPassword ==
    \/ \E in \in LoginInputs : LoginRequest(1, in)
    \/ LoginFail(1)
    \/ LoginReset(1)
    \/ LoginUpdateLast(1)
    \/ \E a \in Accounts, pw \in Range(PlainPasswords) : SetPassword(a, pw)

SpecPassword == InitAuth /\ [][NextPassword]_vars

\* Logins served one at a time whose writes to the collection can fail.
NextFaults ==
    \/ \E in \in LoginInputs : LoginRequest(1, in)
    \/ LoginFail(1)
    \/ LoginReset(1)
    \/ LoginUpdateLast(1)
    \/ LoginValidateError(1)
    \/ LoginFailStorageError(1)
    \/ LoginResetStorageError(1)
    \/ LoginUpdateLastStorageError(1)
    \/ Tick

SpecFaults == InitAuth /\ [][NextFaults]_vars

\* Logins served one at a time by either login process, so that the answers
\* to two requests can be set side by side, while employees are switched
\* off and on.
LoginRequestInTurn(p, in) ==
    /\ \A q \in LoginProcs : lh[q].pc \in {"idle", "done"}
    /\ LoginRequest(p, in)

NextLogins ==
    \/ \E p \in LoginProcs, in \in ConcurrentLoginInputs : LoginRequestInTurn(p, in)
    \/ \E p \in LoginProcs : LoginFail(p)
    \/ \E p \in LoginProcs : LoginReset(p)
    \/ \E p \in LoginProcs : LoginUpdateLast(p)
    \/ \E a \in Accounts : Deactivate(a)
    \/ \E a \in Accounts : Activate(a)
    \/ Tick

SpecLogins == InitAuth /\ [][NextLogins]_vars

\* The requests that obtain a session: the right credentials of an employee.
SessionLoginInputs ==
    {in \in LoginInputs :
        \E a \in Accounts : /\ in.username = UsernameOf(a)
                            /\ in.employeeId = EmployeeIdOf(a)
                            /\ in.password = Str(PasswordOf(a))}

\* Sessions: logins that obtain tokens, refresh calls, and employees
\* switched off and on.
NextRefresh ==
    \/ \E in \in SessionLoginInputs : LoginRequest(1, in)
    \/ LoginReset(1)
    \/ LoginUpdateLast(1)
    \/ \E r \in RefreshProcs, in \in RefreshInputs : Refresh(r, in)
    \/ \E r \in RefreshProcs, a \in Accounts : Logout(r, a)
    \/ \E a \in Accounts : Deactivate(a)
    \/ \E a \in Accounts : Activate(a)

SpecRefresh == InitAuth /\ [][NextRefresh]_vars

\* Refresh calls while logins with a right or a wrong password count
\* failures, lock the account and reset it.
NextLockedRefresh ==
    \/ \E in \in ConcurrentLoginInputs : LoginRequest(1, in)
    \/ LoginFail(1)
    \/ LoginReset(1)
    \/ LoginUpdateLast(1)
    \/ \E in \in RefreshInputs : Refresh(1, in)
    \/ Tick

SpecLockedRefresh == InitAuth /\ [][NextLockedRefresh]_vars

\* The portal page against the login and refresh handlers, while employees
\* are switched off and on.
NextClient ==
    \/ Mount
    \/ GetCurrentEmployeeResolved
    \/ GetCurrentEmployeeRejected
    \/ RefreshServed
    \/ RefreshTokenSettled
    \/ LoginCall
    \/ \E in \in ConcurrentLoginInputs : LoginServed(in)
    \/ LoginFail(1)
    \/ LoginReset(1)
    \/ LoginUpdateLast(1)
    \/ LoginSettled
    \/ LogoutCall
    \/ Reload
    \/ \E a \in Accounts : Deactivate(a)
    \/ \E a \in Accounts : Activate(a)

SpecClient == InitAuth /\ [][NextClient]_vars

(* ------------------------------ claims --------------------------------- *)
Done(p) == th[p].pc = "done"
Logged(type, t) == {ev \in PaymentEvents : ev.type = type /\ ev.transactionId = t /\ auditLog[ev] > 0}
CountLogged(type, t) ==
    LET evs == {ev \in PaymentEvents : ev.type = type /\ ev.transactionId = t}
        RECURSIVE Sum(_)
        Sum(S) == IF S = {} THEN 0 ELSE LET x == CHOOSE y \in S : TRUE
                                        IN  auditLog[x] + Sum(S \ {x})
    IN  Sum(evs)

\* C1: of two verify calls that both read the same transaction as PENDING
\* and pass the permission check, exactly one succeeds and the other
\* observes InvalidState; no transaction is resolved by two employee actions.
C1_ConcurrentVerifyOneWins ==
    /\ \A p, q \in Procs :
         (/\ p # q /\ Done(p) /\ Done(q)
          /\ th[p].op = "verify" /\ th[q].op = "verify"
          /\ th[p].id \in TxnIds /\ th[p].id = th[q].id
          /\ th[p].resp.kind = "Ok"
          /\ th[q].resp.kind \notin {"LimitExceeded", "InvalidInput"})
         => th[q].resp.kind = "InvalidState"
    /\ \A t \in TxnIds :
         CountLogged("TRANSACTION_VERIFIED", t) + CountLogged("TRANSACTION_REJECTED", t) <= 1

\* The ids of a well-formed submit request that named no transaction in
\* VERIFIED status when the request was served.
WellFormedBatch(ids) ==
    /\ NotAnArray \notin Range(ids)
    /\ Len(ids) > 0 /\ Len(ids) <= 50
    /\ \A i \in 1..Len(ids) : ValidObjectId(ids[i])
Unresolved(ids, store) ==
    {i \in 1..Len(ids) : ids[i] \notin TxnIds \/ store[ids[i]].status # "VERIFIED"}
PartialBatch ==
    /\ last.op = "SubmitRequest"
    /\ WellFormedBatch(last.ids)
    /\ Unresolved(last.ids, last.store) # {}

\* C2 as stated: a batch with an id that does not resolve to a VERIFIED
\* transaction fails with PartialBatchInvalid and changes no transaction.
C2_BatchFailsPartialBatchInvalid ==
    PartialBatch => /\ th[last.p].resp.kind = "PartialBatchInvalid"
                    /\ txStore = last.store

\* C2 amended: such a batch fails, with PartialBatchInvalid when some id of
\* it resolves to a VERIFIED transaction and with NotFound when none does;
\* the handler ends there, having written nothing, and no transaction changes.
C2_BatchAllOrNothing ==
    PartialBatch =>
        /\ th[last.p].pc = "done"
        /\ th[last.p].resp.kind =
              IF \A i \in 1..Len(last.ids) : i \in Unresolved(last.ids, last.store)
              THEN "NotFound" ELSE "PartialBatchInvalid"
        /\ th[last.p].submitted = {}
        /\ txStore = last.store
        /\ auditLog = last.log

\* C2 witness: a batch naming a VERIFIED and a non-VERIFIED transaction has
\* just been refused.
C2_Witness ==
    /\ PartialBatch
    /\ \E i \in 1..Len(last.ids) : i \notin Unresolved(last.ids, last.store)
    /\ th[last.p].resp.kind = "PartialBatchInvalid"

\* C3: a batch that fails has transitioned none of its transactions.
C3_FailedBatchTransitionsNone ==
    \A p \in Procs :
        (Done(p) /\ th[p].op = "submit" /\ th[p].resp.kind # "Ok") => th[p].submitted = {}

\* C4: a step changes a status only along PENDING -> VERIFIED,
\* PENDING -> REJECTED and VERIFIED -> PROCESSING.
LegalTransitions ==
    {<<"PENDING", "VERIFIED">>, <<"PENDING", "REJECTED">>, <<"VERIFIED", "PROCESSING">>}
C4_StatusMonotonic ==
    \A t \in TxnIds :
        txStore[t].status # last.store[t].status
        => <<last.store[t].status, txStore[t].status>> \in LegalTransitions

\* C4 witness: a transaction went PENDING -> VERIFIED -> PROCESSING.
C4_Witness ==
    \E t \in TxnIds :
        /\ txStore[t].status = "PROCESSING"
        /\ last.store[t].status = "VERIFIED"
        /\ Logged("TRANSACTION_VERIFIED", t) # {}
        /\ Logged("TRANSACTION_SUBMITTED_TO_SWIFT", t) # {}

\* C5: an approval by an EMPLOYEE-role actor of a PENDING transaction above
\* the actor's limit answers LimitExceeded and changes nothing, and no
\* TRANSACTION_VERIFIED event names an EMPLOYEE-role actor whose limit is
\* below the amount.
OverLimitApproval ==
    /\ last.op = "VerifyRequest"
    /\ last.flag = "true" /\ last.id \in TxnIds
    /\ last.notes.length <= MaxNotesLength
    /\ last.store[last.id].status = "PENDING"
    /\ RoleOf(last.actor) = "EMPLOYEE"
    /\ last.store[last.id].amount > LimitOf(last.actor)
C5_LimitEnforced ==
    /\ OverLimitApproval =>
          /\ th[last.p].pc = "done"
          /\ th[last.p].resp.kind = "LimitExceeded"
          /\ txStore = last.store
          /\ auditLog = last.log
    /\ \A ev \in PaymentEvents :
          (auditLog[ev] > 0 /\ ev.type = "TRANSACTION_VERIFIED"
           /\ RoleOf(ev.employeeId) = "EMPLOYEE")
          => txStore[ev.transactionId].amount <= LimitOf(ev.employeeId)

\* C5 witness: such an approval has just been refused and the transaction
\* is still PENDING, unstamped.
C5_Witness ==
    /\ OverLimitApproval
    /\ txStore[last.id].status = "PENDING"
    /\ txStore[last.id].verifiedAt = NoTime

\* C6: an approval of a PENDING transaction passes the permission check
\* exactly when amount <= limit or the role is ADMIN or SUPERVISOR, and its
\* write on a transaction still PENDING makes it VERIFIED and answers Ok.
Permitted(e, amount) == amount <= LimitOf(e) \/ RoleOf(e) \in {"ADMIN", "SUPERVISOR"}
C6_ApproveDecision ==
    /\ (/\ last.op = "VerifyRequest"
        /\ last.flag = "true" /\ last.id \in TxnIds
        /\ last.notes.length <= MaxNotesLength
        /\ last.store[last.id].status = "PENDING")
       => /\ th[last.p].pc = "v_write" <=> Permitted(last.actor, last.store[last.id].amount)
          /\ th[last.p].pc # "v_write" => th[last.p].resp.kind = "LimitExceeded"
    /\ (/\ last.op = "VerifyWrite"
        /\ last.flag = "true"
        /\ last.store[last.id].status = "PENDING")
       => /\ txStore[last.id].status = "VERIFIED"
          /\ txStore[last.id].verifiedAt # NoTime
          /\ th[last.p].resp.kind = "Ok"
          /\ Permitted(last.actor, txStore[last.id].amount)

\* C6 witness: an EMPLOYEE has just verified a transaction of exactly the
\* limit, after a SUPERVISOR or ADMIN verified one above the own limit.
C6_Witness ==
    /\ last.op = "VerifyWrite" /\ last.flag = "true"
    /\ RoleOf(last.actor) = "EMPLOYEE"
    /\ txStore[last.id].amount = LimitOf(last.actor)
    /\ txStore[last.id].status = "VERIFIED"
    /\ \E ev \in PaymentEvents :
         /\ auditLog[ev] > 0 /\ ev.type = "TRANSACTION_VERIFIED"
         /\ RoleOf(ev.employeeId) # "EMPLOYEE"
         /\ txStore[ev.transactionId].amount > LimitOf(ev.employeeId)

(* ------------------------------ login claims --------------------------- *)
\* The login step taken last was taken by this handler.
LoginHandler == lh[last.p]

\* The request received last names the employee a.
Names(in, a) == in.username = UsernameOf(a) /\ in.employeeId = EmployeeIdOf(a)

\* lockedUntil is present and in the future at time t.
LockInFuture(e, t) == e.lockedUntil # NoTime /\ e.lockedUntil > t

LockoutFields(e) ==
    [failedLoginAttempts |-> e.failedLoginAttempts, lockedUntil |-> e.lockedUntil,
     lastLoginAt |-> e.lastLoginAt]

\* C7: counting from a reset counter, the fifth consecutive wrong-password
\* login leaves lockedUntil at the time of that failure plus 15 minutes, and
\* while fewer than five have been counted no lock is set.
C7_FiveFailuresLock ==
    \A a \in Accounts :
        /\ (/\ last.op = "LoginFail"
            /\ last.account = a
            /\ last.streak[a] = maxAttempts - 1)
           => /\ empStore[a].failedLoginAttempts = maxAttempts
              /\ empStore[a].lockedUntil = last.time + lockTime
              /\ LockInFuture(empStore[a], now)
        /\ failStreak[a] < maxAttempts => empStore[a].lockedUntil = NoTime

C7_Witness ==
    /\ last.op = "LoginFail"
    /\ last.account = 1
    /\ last.streak[1] = maxAttempts - 1
    /\ last.emp[1].lockedUntil = NoTime
    /\ empStore[1].lockedUntil = now + lockTime

\* A login request arrived for employee a while a's account was locked.
LockedAttempt(a) ==
    /\ last.op = "LoginRequest"
    /\ Names(last.in, a)
    /\ last.emp[a].isActive
    /\ LockInFuture(last.emp[a], last.time)

\* C8: a login request that arrives while the account is locked ends at once
\* in a failure: the password is never verified, no token is issued and the
\* lockout fields and lastLoginAt stay as they were.
C8_LockedAttemptFails ==
    \A a \in Accounts :
        LockedAttempt(a) =>
            /\ LoginHandler.pc = "done"
            /\ ~LoginHandler.validated
            /\ LoginHandler.resp.code = 401
            /\ LoginHandler.resp.token = NoToken
            /\ LoginHandler.resp.refreshToken = NoToken
            /\ LockoutFields(empStore[a]) = LockoutFields(last.emp[a])

C8_Witness ==
    /\ LockedAttempt(1)
    /\ last.in.password.value = PasswordOf(1)
    /\ LoginHandler.resp.code = 401

\* C9: the stored failedLoginAttempts equals the number of failed attempts
\* persisted since the counter was last reset, whatever the interleaving, and
\* once five of them are persisted the lock is set.
C9_IncrementsLinearizable ==
    \A a \in Accounts :
        /\ empStore[a].failedLoginAttempts = failStreak[a]
        /\ failStreak[a] >= maxAttempts => empStore[a].lockedUntil # NoTime

\* The request received last carries the right credentials of employee a,
\* who is active and not locked.
CorrectLogin(a) ==
    /\ last.op = "LoginRequest"
    /\ Names(last.in, a)
    /\ last.in.password = Str(PasswordOf(a))
    /\ last.emp[a].isActive
    /\ ~LockInFuture(last.emp[a], last.time)

\* C10: served on its own, a login with the right credentials of an active
\* employee who is not locked passes the password check and goes on to the
\* 200; the stored counter is then 0, lockedUntil is cleared, lastLoginAt is
\* the time of the login, and the response holds one access token and one
\* refresh token of that employee.
C10_CorrectLoginSucceeds ==
    /\ \A a \in Accounts :
        CorrectLogin(a) => /\ LoginHandler.pc = "validate"
                           /\ LoginHandler.account = a
                           /\ LoginHandler.passwordOk
    /\ last.op = "LoginReset" => LoginHandler.pc = "lastLogin"
    /\ last.op = "LoginUpdateLast" =>
        /\ LoginHandler.pc = "done"
        /\ LoginHandler.resp.code = 200
        /\ LoginHandler.resp.employee = last.account
        /\ empStore[last.account].failedLoginAttempts = 0
        /\ empStore[last.account].lockedUntil = NoTime
        /\ empStore[last.account].lastLoginAt = last.time
        /\ LoginHandler.resp.token.type = "employee_access"
        /\ LoginHandler.resp.token.employeeId = last.account
        /\ LoginHandler.resp.refreshToken.type = "employee_refresh"
        /\ LoginHandler.resp.refreshToken.employeeId = last.account

C10_Witness ==
    /\ last.op = "LoginUpdateLast"
    /\ last.account = 1
    /\ LoginHandler.resp.code = 200
    /\ failStreak[1] = 0
    /\ empStore[1].failedLoginAttempts = 0
    /\ empStore[1].lockedUntil = NoTime
    /\ empStore[1].lastLoginAt = now
    /\ now > 1

\* The request received last carries a wrong password for employee a, who
\* is active and not locked.
WrongPasswordLogin(a) ==
    /\ last.op = "LoginRequest"
    /\ Names(last.in, a)
    /\ ValidPassword(last.in.password)
    /\ last.in.password # Str(PasswordOf(a))
    /\ last.emp[a].isActive
    /\ ~LockInFuture(last.emp[a], last.time)

NoTokens(resp) == resp.token = NoToken /\ resp.refreshToken = NoToken

\* C11: served on its own, a login with a wrong password on an active
\* employee who is not locked fails the password check; the stored counter is
\* then one more than before, lockedUntil is the time of the failure plus 15
\* minutes when the new count is 5 or more and is untouched otherwise, one
\* audit failure event is emitted and the response is the 401 'Invalid
\* credentials' without tokens.
C11_WrongPasswordCounts ==
    /\ \A a \in Accounts :
        WrongPasswordLogin(a) => /\ LoginHandler.pc = "validate"
                                 /\ LoginHandler.account = a
                                 /\ ~LoginHandler.passwordOk
    /\ last.op = "LoginFail" =>
        LET before == last.emp[last.account]
            after == empStore[last.account]
        IN  /\ after.failedLoginAttempts = before.failedLoginAttempts + 1
            /\ after.failedLoginAttempts >= maxAttempts
                => after.lockedUntil = last.time + lockTime
            /\ after.failedLoginAttempts < maxAttempts
                => after.lockedUntil = before.lockedUntil
            /\ after.lastLoginAt = before.lastLoginAt
            /\ LoginHandler.pc = "done"
            /\ LoginHandler.events = << AuthEvent("EMPLOYEE_LOGIN_FAILED", FALSE,
                                                  "Invalid password") >>
            /\ LoginHandler.resp.code = 401
            /\ LoginHandler.resp.error = "Invalid credentials"
            /\ NoTokens(LoginHandler.resp)

\* The failure that takes the counter from 2 to 3, below the threshold.
C11_Witness ==
    /\ last.op = "LoginFail"
    /\ last.account = 1
    /\ last.emp[1].failedLoginAttempts = 2
    /\ empStore[1].failedLoginAttempts = 3
    /\ empStore[1].lockedUntil = NoTime
    /\ LoginHandler.resp.code = 401

Malformed(in) ==
    \/ ~(Len(in.username) >= 3 /\ Len(in.username) <= 30
         /\ \A i \in 1..Len(in.username) :
                in.username[i] \in Upper \cup Lower \cup Digits \cup {"_", "-"})
    \/ ~(Len(in.employeeId) >= 6 /\ Len(in.employeeId) <= 10
         /\ \A i \in 1..Len(in.employeeId) : in.employeeId[i] \in Upper \cup Digits)
    \/ in.password.value = ""
    \/ in.password.type # "string"

\* C13: a login request whose username or employee id does not match its
\* pattern, or whose password is empty or not a string, ends at once in a 400
\* without a lookup of the employee, without a password check and with every
\* employee's stored fields as they were.
C13_MalformedLoginRejected ==
    (last.op = "LoginRequest" /\ Malformed(last.in)) =>
        /\ LoginHandler.pc = "done"
        /\ LoginHandler.resp.code = 400
        /\ ~LoginHandler.lookedUp
        /\ ~LoginHandler.validated
        /\ LoginHandler.events = << >>
        /\ NoTokens(LoginHandler.resp)
        /\ empStore = last.emp
        /\ failStreak = last.streak

\* The employee id of the demo employee in lower case, with the right
\* username and password.
C13_Witness ==
    /\ last.op = "LoginRequest"
    /\ last.in.username = UsernameOf(1)
    /\ last.in.password = Str(PasswordOf(1))
    /\ last.in.employeeId = <<"e", "m", "p", "0", "0", "1">>
    /\ LoginHandler.resp.code = 400
    /\ LoginHandler.resp.error = "Invalid employee ID format"

(* -------------------------- verify claims, continued ------------------- *)
\* The request received last is a well-formed verify call that names a
\* transaction on file.
VerifyCall ==
    /\ last.op = "VerifyRequest"
    /\ last.flag \in {"true", "false"}
    /\ last.id \in TxnIds
    /\ last.notes.length <= MaxNotesLength

\* C19: a verify call, approve or reject, on a transaction that is not
\* PENDING answers 400 InvalidState, leaves every transaction as it was and
\* emits no audit payment event.
C19_NonPendingRefused ==
    (VerifyCall /\ last.store[last.id].status # "PENDING") =>
        /\ th[last.p].pc = "done"
        /\ th[last.p].resp = [code |-> 400, kind |-> "InvalidState"]
        /\ txStore = last.store
        /\ auditLog = last.log

\* A rejection asked for a transaction that an earlier call verified.
C19_Witness ==
    /\ VerifyCall
    /\ last.flag = "false"
    /\ last.store[last.id].status = "VERIFIED"
    /\ CountLogged("TRANSACTION_VERIFIED", last.id) = 1
    /\ th[last.p].resp.kind = "InvalidState"
    /\ txStore[last.id].status = "VERIFIED"

\* The verify call received last follows a finished verify call of process
\* p on the same transaction.
SecondVerify(p) ==
    /\ VerifyCall
    /\ p # last.p
    /\ th[p].pc = "done"
    /\ th[p].op = "verify"
    /\ th[p].id = last.id

\* C20 as stated: the second of two verify calls in sequence on one
\* transaction answers InvalidState whatever the first call answered.
C20_SecondAlwaysInvalidState ==
    \A p \in Procs :
        SecondVerify(p) => /\ th[last.p].pc = "done"
                           /\ th[last.p].resp.kind = "InvalidState"

\* C20 amended: when the first call went through (verified or rejected the
\* transaction) or was itself refused with InvalidState, the second call
\* answers InvalidState and changes neither the transaction nor the audit
\* log, so the transaction is not transitioned a second time.
C20_SecondAfterTransition ==
    \A p \in Procs :
        (SecondVerify(p) /\ th[p].resp.kind \in {"Ok", "InvalidState"}) =>
            /\ th[last.p].pc = "done"
            /\ th[last.p].resp.kind = "InvalidState"
            /\ txStore = last.store
            /\ auditLog = last.log

\* An approval that follows a rejection of the same transaction.
C20_Witness ==
    \E p \in Procs :
        /\ SecondVerify(p)
        /\ th[p].resp.kind = "Ok"
        /\ last.flag = "true"
        /\ txStore[last.id].status = "REJECTED"
        /\ CountLogged("TRANSACTION_REJECTED", last.id) = 1
        /\ CountLogged("TRANSACTION_VERIFIED", last.id) = 0
        /\ th[last.p].resp.kind = "InvalidState"

(* --------------------- login claims on identities ---------------------- *)
\* The finished login of process p failed because findByCredentials found no
\* active employee of that username and employee id.
FailedUnknown(p) ==
    /\ lh[p].pc = "done"
    /\ lh[p].lookedUp /\ ~lh[p].validated
    /\ Len(lh[p].events) = 1
    /\ lh[p].events[1].reason = "Invalid credentials"

\* The finished login of process p failed on the password of an active
\* employee.
FailedPassword(p) ==
    /\ lh[p].pc = "done"
    /\ lh[p].validated
    /\ Len(lh[p].events) = 1
    /\ lh[p].events[1].reason = "Invalid password"

\* C12: the response to a login for an identity that is unknown or inactive
\* and the response to a login with a wrong password for an active employee
\* are equal in status and in body.
C12_UnknownLikeWrongPassword ==
    \A p \in LoginProcs, q \in LoginProcs :
        (FailedUnknown(p) /\ FailedPassword(q)) => lh[p].resp = lh[q].resp

\* The employee was switched off between a login with a wrong password and a
\* login with the right one.
C12_Witness ==
    /\ last.op = "LoginRequest"
    /\ last.in.username = UsernameOf(1)
    /\ last.in.password = Str(PasswordOf(1))
    /\ ~last.emp[1].isActive
    /\ FailedUnknown(last.p)
    /\ \E q \in LoginProcs : FailedPassword(q) /\ lh[q].resp.code = 401

\* A login request arrived for employee a while a was switched off.
InactiveLogin(a) ==
    /\ last.op = "LoginRequest"
    /\ Names(last.in, a)
    /\ ~last.emp[a].isActive

\* C14: a login request for an employee whose isActive is false ends at once
\* in a failure, whatever the password: no password check, no token, and the
\* employee's failedLoginAttempts and lockedUntil stay as they were.
C14_InactiveNeverLogsIn ==
    \A a \in Accounts :
        InactiveLogin(a) =>
            /\ LoginHandler.pc = "done"
            /\ LoginHandler.resp.code = 401
            /\ ~LoginHandler.validated
            /\ NoTokens(LoginHandler.resp)
            /\ empStore[a] = last.emp[a]
            /\ ~empStore[a].isActive

\* The right credentials of an employee who logged in before and was then
\* switched off.
C14_Witness ==
    /\ InactiveLogin(1)
    /\ last.in.password = Str(PasswordOf(1))
    /\ empStore[1].lastLoginAt # NoTime
    /\ LoginHandler.resp.code = 401

(* ------------------------------ refresh claims ------------------------- *)
\* The response to the refresh call made last.
RefreshResponse == rh[last.p].resp

\* The last call of session process r was a refresh answered 200 (the 200 of
\* a logout carries no token).
Refreshed(r) == rh[r].resp.code = 200 /\ rh[r].resp.token # NoToken

\* The refresh call made last presented a token of subject a while a was
\* switched off.
InactiveRefresh(a) ==
    /\ last.op = "Refresh"
    /\ last.in.claims.employeeId = a
    /\ ~last.emp[a].isActive

\* C15: a refresh call made while the subject of the presented token is
\* inactive is answered 401 without tokens, whatever the token, each time it
\* is made.
C15_InactiveRefreshRefused ==
    \A a \in Accounts :
        InactiveRefresh(a) => /\ RefreshResponse.code = 401
                              /\ NoTokens(RefreshResponse)
                              /\ empStore = last.emp

\* The refresh token a login issued, and that an earlier refresh call
\* accepted, is presented after the employee was switched off.
C15_Witness ==
    /\ InactiveRefresh(1)
    /\ last.in.signature = "valid" /\ ~last.in.expired
    /\ \E p \in LoginProcs : /\ lh[p].resp.code = 200
                             /\ lh[p].resp.refreshToken = last.in.claims
    /\ \E r \in RefreshProcs : r # last.p /\ Refreshed(r)
    /\ RefreshResponse.code = 401

\* C16: a refresh call that presents a validly signed access token is
\* answered 401 without tokens, a refresh call that is answered 200
\* presented a refresh token, and in every 200 of login and of refresh the
\* access token has the access type and the refresh token the refresh type.
C16_TokenTypeMatches ==
    /\ (/\ last.op = "Refresh"
        /\ last.in.signature = "valid" /\ ~last.in.expired
        /\ last.in.claims.type = "employee_access")
       => /\ RefreshResponse.code = 401
          /\ NoTokens(RefreshResponse)
    /\ (last.op = "Refresh" /\ RefreshResponse.code = 200)
       => last.in.claims.type = "employee_refresh"
    /\ \A r \in RefreshProcs :
        Refreshed(r) => /\ rh[r].resp.token.type = "employee_access"
                        /\ rh[r].resp.refreshToken.type = "employee_refresh"
    /\ \A p \in LoginProcs :
        lh[p].resp.code = 200 => /\ lh[p].resp.token.type = "employee_access"
                                 /\ lh[p].resp.refreshToken.type = "employee_refresh"

\* The access token a login issued is presented for refresh while the
\* employee is active.
C16_Witness ==
    /\ last.op = "Refresh"
    /\ last.in.signature = "valid" /\ ~last.in.expired
    /\ \E p \in LoginProcs : /\ lh[p].resp.code = 200
                             /\ lh[p].resp.token = last.in.claims
    /\ last.emp[last.in.claims.employeeId].isActive
    /\ RefreshResponse.code = 401

\* C17: any two refused refresh calls have the same response.
C17_RefreshFailuresAlike ==
    \A r1 \in RefreshProcs, r2 \in RefreshProcs :
        (rh[r1].resp.code = 401 /\ rh[r2].resp.code = 401) => rh[r1].resp = rh[r2].resp

\* C18: a refresh call that presents a validly signed, unexpired refresh
\* token whose issuer or audience is not the one issuance sets is answered
\* 401 without tokens.
C18_IssuerAudienceChecked ==
    (/\ last.op = "Refresh"
     /\ last.in.signature = "valid" /\ ~last.in.expired
     /\ last.in.claims.type = "employee_refresh"
     /\ \/ last.in.claims.issuer # "secure-payments-portal"
        \/ last.in.claims.audience # "banking-employees")
    => /\ RefreshResponse.code = 401
       /\ NoTokens(RefreshResponse)

(* ---------------------- rejection, batches, audit ---------------------- *)
\* C21: a well-formed rejection of a PENDING transaction goes on to the
\* write whatever the role of the actor and the amount; the write on a
\* transaction still PENDING makes it REJECTED with rejectionReason the
\* notes supplied, or 'Rejected by employee' when there are none; notes
\* longer than 500 characters are answered 400 with nothing changed.
C21_RejectStampsReason ==
    /\ (/\ last.op = "VerifyRequest"
        /\ last.flag = "false" /\ last.id \in TxnIds
        /\ last.notes.length <= 500
        /\ last.store[last.id].status = "PENDING")
       => /\ th[last.p].pc = "v_write"
          /\ txStore = last.store
    /\ (/\ last.op = "VerifyWrite"
        /\ last.flag = "false"
        /\ last.store[last.id].status = "PENDING")
       => /\ txStore[last.id].status = "REJECTED"
          /\ txStore[last.id].rejectionReason =
                IF last.notes.length > 0 THEN last.notes
                ELSE [text |-> "Rejected by employee", length |-> 20]
          /\ th[last.p].resp.kind = "Ok"
    /\ (/\ last.op = "VerifyRequest"
        /\ last.flag \in {"true", "false"} /\ last.id # BadId
        /\ last.notes.length > 500)
       => /\ th[last.p].resp = [code |-> 400, kind |-> "InvalidInput"]
          /\ txStore = last.store
          /\ auditLog = last.log

\* An EMPLOYEE has rejected, without notes, a transaction above the own
\* limit.
C21_Witness ==
    /\ last.op = "VerifyWrite" /\ last.flag = "false"
    /\ RoleOf(last.actor) = "EMPLOYEE"
    /\ last.store[last.id].amount > LimitOf(last.actor)
    /\ last.notes.length = 0
    /\ txStore[last.id].status = "REJECTED"
    /\ txStore[last.id].rejectionReason.text = "Rejected by employee"

SubmittedEvent(t, e) ==
    [type |-> "TRANSACTION_SUBMITTED_TO_SWIFT", transactionId |-> t, employeeId |-> e]

\* C22: a batch goes on to its writes only with every id of it VERIFIED;
\* each turn of the loop that writes moves one transaction of the batch from
\* VERIFIED to PROCESSING, emits one TRANSACTION_SUBMITTED_TO_SWIFT event for
\* it and changes nothing else; and when the batch has answered Ok every
\* transaction it submitted is PROCESSING with one such event.
C22_BatchSuccess ==
    /\ (last.op = "SubmitRequest" /\ th[last.p].pc = "s_write")
       => /\ th[last.p].todo = Range(last.ids)
          /\ Cardinality(th[last.p].todo) = Len(last.ids)
          /\ \A t \in th[last.p].todo : last.store[t].status = "VERIFIED"
          /\ th[last.p].submitted = {}
          /\ txStore = last.store /\ auditLog = last.log
    /\ (last.op = "SubmitWrite" /\ th[last.p].resp.kind # "InternalFailure")
       => \E t \in th[last.p].submitted :
            /\ last.store[t].status = "VERIFIED"
            /\ txStore = [last.store EXCEPT ![t].status = "PROCESSING"]
            /\ auditLog = [last.log EXCEPT ![SubmittedEvent(t, last.actor)] = @ + 1]
    /\ \A p \in Procs :
        (Done(p) /\ th[p].op = "submit" /\ th[p].resp.kind = "Ok")
        => /\ th[p].submitted # {}
           /\ th[p].todo = {}
           /\ \A t \in th[p].submitted :
                /\ txStore[t].status = "PROCESSING"
                /\ CountLogged("TRANSACTION_SUBMITTED_TO_SWIFT", t) = 1

\* A batch of two transactions has just answered Ok.
C22_Witness ==
    /\ last.op = "SubmitWrite"
    /\ th[last.p].resp.kind = "Ok"
    /\ Cardinality(th[last.p].submitted) = 2
    /\ \A t \in th[last.p].submitted : txStore[t].status = "PROCESSING"

\* C23: a submit request whose id list is not an array, is empty or holds
\* more than 50 ids is answered 400 and changes no transaction and no audit
\* event.
C23_BatchSizeChecked ==
    (/\ last.op = "SubmitRequest"
     /\ \/ NotAnArray \in Range(last.ids)
        \/ Len(last.ids) = 0
        \/ Len(last.ids) > 50)
    => /\ th[last.p].pc = "done"
       /\ th[last.p].resp = [code |-> 400, kind |-> "InvalidInput"]
       /\ th[last.p].submitted = {}
       /\ txStore = last.store
       /\ auditLog = last.log

\* A list of 51 ids of a VERIFIED transaction has just been refused.
C23_Witness ==
    /\ last.op = "SubmitRequest"
    /\ Len(last.ids) = 51
    /\ \A i \in 1..Len(last.ids) : /\ last.ids[i] \in TxnIds
                                   /\ txStore[last.ids[i]].status = "VERIFIED"
    /\ th[last.p].resp.kind = "InvalidInput"

VerifyEvent(flag, t, e) ==
    [type |-> IF flag = "true" THEN "TRANSACTION_VERIFIED" ELSE "TRANSACTION_REJECTED",
     transactionId |-> t, employeeId |-> e]

\* C26: a step of verify that changes the transaction emits exactly one
\* audit payment event, TRANSACTION_VERIFIED for a verification and
\* TRANSACTION_REJECTED for a rejection, with the transaction's id and the
\* actor's id, and a step of verify that changes nothing emits none.
C26_VerifyAttributable ==
    /\ (last.op \in {"VerifyRequest", "VerifyWrite"} /\ txStore = last.store)
       => /\ auditLog = last.log
          /\ last.op = "VerifyWrite" => th[last.p].resp.kind # "Ok"
    /\ (last.op \in {"VerifyRequest", "VerifyWrite"} /\ txStore # last.store)
       => /\ last.op = "VerifyWrite"
          /\ last.store[last.id].status = "PENDING"
          /\ txStore[last.id].status = IF last.flag = "true" THEN "VERIFIED" ELSE "REJECTED"
          /\ auditLog = [last.log EXCEPT ![VerifyEvent(last.flag, last.id, last.actor)] = @ + 1]
          /\ th[last.p].resp.kind = "Ok"

\* A rejection by the second employee has just been written and logged.
C26_Witness ==
    /\ last.op = "VerifyWrite" /\ last.flag = "false"
    /\ last.actor = 2
    /\ txStore[last.id].status = "REJECTED"
    /\ auditLog[VerifyEvent("false", last.id, 2)] = 1
    /\ CountLogged("TRANSACTION_VERIFIED", last.id) = 0

(* ------------------------------ statistics ----------------------------- *)
\* C27: a step of a statistics call changes no transaction, no audit event
\* and no employee; and when the collection is at the response as the call
\* found it, each count of the response is the number of transactions in
\* that status.
C27_StatisticsReadOnly ==
    /\ last.op \in {"StatisticsRequest", "StatisticsRead"}
       => /\ txStore = last.store
          /\ auditLog = last.log
          /\ empStore = last.emp
    /\ (sh.pc = "done" /\ txStore = sh.start)
       => /\ sh.counts.pending =
                Cardinality({t \in TxnIds : txStore[t].status = "PENDING"})
          /\ sh.counts.verified =
                Cardinality({t \in TxnIds : txStore[t].status = "VERIFIED"})
          /\ sh.counts.processing =
                Cardinality({t \in TxnIds : txStore[t].status = "PROCESSING"})
          /\ sh.counts.completed =
                Cardinality({t \in TxnIds : txStore[t].status = "COMPLETED"})
          /\ sh.counts.rejected =
                Cardinality({t \in TxnIds : txStore[t].status = "REJECTED"})

\* The response to a call made after a verification: one VERIFIED, one
\* PENDING.
C27_Witness ==
    /\ last.op = "StatisticsRead"
    /\ sh.pc = "done"
    /\ txStore = sh.start
    /\ th[1].resp.kind = "Ok"
    /\ sh.counts.verified = 1
    /\ sh.counts.pending = 1

(* -------------------------------- logout ------------------------------- *)
LoggedOut(r, a) == rh[r].events = << LogoutEvent(a) >>

\* C28: a logout call changes no employee and no transaction and emits one
\* EMPLOYEE_LOGOUT event; and after a logout of an employee, an unexpired
\* refresh token of that employee, as a login issued it, is still accepted
\* by refresh while the employee is active.
C28_LogoutInvalidatesNothing ==
    /\ last.op = "Logout"
       => /\ empStore = last.emp
          /\ txStore = last.store
          /\ auditLog = last.log
          /\ rh[last.p].resp.code = 200
          /\ Len(rh[last.p].events) = 1
          /\ rh[last.p].events[1].type = "EMPLOYEE_LOGOUT"
    /\ \A a \in Accounts :
         ( /\ last.op = "Refresh"
           /\ last.in = Presented(generateEmployeeRefreshToken(a), "valid", FALSE)
           /\ empStore[a].isActive
           /\ \E r \in RefreshProcs \ {last.p} : LoggedOut(r, a) )
         => /\ rh[last.p].resp.code = 200
            /\ rh[last.p].resp.token = generateEmployeeToken(a)
            /\ rh[last.p].resp.refreshToken = generateEmployeeRefreshToken(a)

\* A login issued the tokens, the employee logged out, and the refresh
\* token was presented afterwards.
C28_Witness ==
    \E a \in Accounts :
        /\ lh[1].resp.code = 200
        /\ lh[1].resp.refreshToken = generateEmployeeRefreshToken(a)
        /\ last.op = "Refresh"
        /\ last.in = Presented(lh[1].resp.refreshToken, "valid", FALSE)
        /\ \E r \in RefreshProcs \ {last.p} : LoggedOut(r, a)
        /\ rh[last.p].resp.code = 200

(* ----------------------------- lock expiry ----------------------------- *)
\* The request received last is well formed and names the active employee a.
LoginNaming(a) ==
    /\ last.op = "LoginRequest"
    /\ Names(last.in, a)
    /\ ValidPassword(last.in.password)
    /\ last.emp[a].isActive

\* The lock of e has run out at time t: lockedUntil is present and t has
\* reached it.
LockRunOut(e, t) == e.lockedUntil # NoTime /\ e.lockedUntil <= t

\* C29: a login request for an employee is refused for the lock exactly when
\* lockedUntil is present and later than the time of the request; from the
\* minute lockedUntil itself on, with the document left as the lock wrote it,
\* a request with the right password passes the password check, its reset
\* leaves failedLoginAttempts at 0 and lockedUntil cleared, and it ends in
\* the 200.
C29_LockIsTemporary ==
    /\ \A a \in Accounts :
        LoginNaming(a) =>
            /\ LoginHandler.pc = "done" <=> LockInFuture(last.emp[a], last.time)
            /\ LoginHandler.pc = "validate" <=> ~LockInFuture(last.emp[a], last.time)
            /\ (LockRunOut(last.emp[a], last.time) /\ last.in.password = Str(PasswordOf(a)))
                => LoginHandler.passwordOk
    /\ (last.op = "LoginReset" /\ LockRunOut(last.emp[last.account], last.time))
        => /\ empStore[last.account].failedLoginAttempts = 0
           /\ empStore[last.account].lockedUntil = NoTime
           /\ LoginHandler.pc = "lastLogin"
    /\ last.op = "LoginUpdateLast"
        => /\ LoginHandler.resp.code = 200
           /\ empStore[last.account].failedLoginAttempts = 0

\* The reset of a login made in the very minute the lock ran out, on the
\* document as the fifth failure left it.
C29_Witness ==
    /\ last.op = "LoginReset"
    /\ last.account = 1
    /\ last.emp[1].failedLoginAttempts = maxAttempts
    /\ last.emp[1].lockedUntil = last.time
    /\ empStore[1].failedLoginAttempts = 0
    /\ empStore[1].lockedUntil = NoTime

(* ------------------------- the locked account's error ------------------ *)
\* C30: a login request that arrives while the account is locked is answered
\* with an error of its own, not with the 401 'Invalid credentials' of an
\* unknown identity or a wrong password.
C30_LockedReportedAsLocked ==
    \A a \in Accounts :
        LockedAttempt(a) =>
            ~(LoginHandler.resp.code = 401 /\ LoginHandler.resp.error = "Invalid credentials")

(* --------------------------- failing writes ---------------------------- *)
\* C24: a login that is answered with an error because one of its writes
\* failed leaves the employee collection as it was before the login wrote
\* anything: the counter reset and the lastLoginAt update are persisted
\* together or not at all.
C24_ErrorsLeaveNoPartialState ==
    last.op \in {"LoginFailStorageError", "LoginResetStorageError",
                 "LoginUpdateLastStorageError"}
        => /\ LoginHandler.resp.code # 200
           /\ empStore = last.emp

C31_MalfunctionIsInternalFailure ==
    last.op \in {"LoginValidateError", "LoginFailStorageError",
                 "LoginResetStorageError", "LoginUpdateLastStorageError"}
        => /\ ~(LoginHandler.resp.code = 401
                /\ LoginHandler.resp.error = "Invalid credentials")
           /\ LoginHandler.resp.error \notin {"Password validation failed", "save failed"}
           /\ NoTokens(LoginHandler.resp)
           /\ \A a \in Accounts :
                /\ empStore[a].failedLoginAttempts <= last.emp[a].failedLoginAttempts
                /\ empStore[a].lockedUntil \in {NoTime, last.emp[a].lockedUntil}

(* ------------------------- password and salt --------------------------- *)
\* C32: the stored passwordHash is always the hash of a plaintext with the
\* stored salt; after the password is set, validatePassword is true for the
\* password set and for no other; and a step of a login, with its saves of
\* failedLoginAttempts, lockedUntil and lastLoginAt, leaves passwordHash and
\* salt as they were.
C32_HashMatchesSalt ==
    /\ \A a \in Accounts :
        \E pw \in Range(PlainPasswords) :
            /\ empStore[a].passwordHash = <<"argon2id", pw, empStore[a].salt>>
            /\ \A other \in Range(PlainPasswords) \cup {"wrong"} :
                validatePassword(empStore[a], other) <=> other = pw
    /\ last.op = "SetPassword"
        => /\ validatePassword(empStore[last.account], last.password)
           /\ \A other \in (Range(PlainPasswords) \cup {"wrong"}) \ {last.password} :
                ~validatePassword(empStore[last.account], other)
    /\ last.op \in {"LoginRequest", "LoginFail", "LoginReset", "LoginUpdateLast"}
        => \A a \in Accounts : /\ empStore[a].passwordHash = last.emp[a].passwordHash
                               /\ empStore[a].salt = last.emp[a].salt

\* The password was changed under a new salt, and a login with the new
\* password has since reset a counted failure.
C32_Witness ==
    /\ last.op = "LoginReset"
    /\ last.account = 1
    /\ last.emp[1].failedLoginAttempts > 0
    /\ empStore[1].failedLoginAttempts = 0
    /\ empStore[1].salt # SaltOf(1)
    /\ empStore[1].passwordHash = <<"argon2id", PasswordOf(2), empStore[1].salt>>

(* ------------------------ the end-to-end scenario ---------------------- *)
\* C33: in the session of the demo employee, made call after call, a login
\* with the right password while active and not locked goes on to the 200
\* with both tokens; the approval of the PENDING transaction of amount 500
\* passes its checks and its write leaves the transaction VERIFIED under a
\* 200; and the batch of that one id, once VERIFIED, passes its checks and
\* its write leaves the transaction PROCESSING under a 200.
C33_EndToEnd ==
    /\ (/\ last.op = "LoginRequest"
        /\ Names(last.in, DemoEmployee)
        /\ last.in.password = Str("Demo123!@#")
        /\ last.emp[DemoEmployee].isActive
        /\ ~LockInFuture(last.emp[DemoEmployee], last.time))
        => lh[1].pc = "validate" /\ lh[1].passwordOk
    /\ last.op = "LoginReset" => lh[1].pc = "lastLogin"
    /\ last.op = "LoginUpdateLast"
        => /\ lh[1].resp.code = 200
           /\ lh[1].resp.token = generateEmployeeToken(last.account)
           /\ lh[1].resp.refreshToken = generateEmployeeRefreshToken(last.account)
    /\ (/\ last.op = "VerifyRequest"
        /\ last.actor = DemoEmployee /\ last.id = DemoTxn /\ last.flag = "true"
        /\ last.store[DemoTxn].status = "PENDING")
        => th[last.p].pc = "v_write"
    /\ (/\ last.op = "VerifyWrite"
        /\ last.actor = DemoEmployee /\ last.id = DemoTxn /\ last.flag = "true")
        => /\ th[last.p].resp = [code |-> 200, kind |-> "Ok"]
           /\ txStore[DemoTxn].status = "VERIFIED"
    /\ (/\ last.op = "SubmitRequest"
        /\ last.actor = DemoEmployee /\ last.ids = << DemoTxn >>
        /\ last.store[DemoTxn].status = "VERIFIED")
        => th[last.p].pc = "s_write"
    /\ (/\ last.op = "SubmitWrite"
        /\ last.actor = DemoEmployee
        /\ th[last.p].submitted = {DemoTxn}
        /\ th[last.p].todo = {})
        => /\ th[last.p].pc = "done"
           /\ th[last.p].resp = [code |-> 200, kind |-> "Ok"]
           /\ txStore[DemoTxn].status = "PROCESSING"

\* The scenario run to its end.
C33_Witness ==
    /\ RoleOf(DemoEmployee) = "EMPLOYEE"
    /\ LimitOf(DemoEmployee) = DefaultVerificationLimit
    /\ txStore[DemoTxn].amount = DemoAmount
    /\ lh[1].resp.code = 200
    /\ th[1].op = "verify" /\ th[1].id = DemoTxn /\ th[1].resp.code = 200
    /\ last.op = "SubmitWrite"
    /\ last.p = 2
    /\ last.store[DemoTxn].status = "VERIFIED"
    /\ th[2].submitted = {DemoTxn}
    /\ th[2].resp.code = 200
    /\ txStore[DemoTxn].status = "PROCESSING"

(* ---------------------- overlapping batches ---------------------------- *)
\* C34: however two submit calls with overlapping id lists interleave, a
\* transaction is moved to PROCESSING by at most one of them, and at most one
\* TRANSACTION_SUBMITTED_TO_SWIFT event is ever logged for it.
C34_HandedOffOnce ==
    \A t \in TxnIds :
        /\ CountLogged("TRANSACTION_SUBMITTED_TO_SWIFT", t) <= 1
        /\ \A p, q \in Procs :
            (p # q /\ t \in th[p].submitted) => t \notin th[q].submitted
        /\ CountLogged("TRANSACTION_SUBMITTED_TO_SWIFT", t) = 1
            => txStore[t].status = "PROCESSING"

\* Two calls found the same transaction VERIFIED; one has handed it off and
\* the other has met it changed.
C34_Witness ==
    \E t \in TxnIds, p, q \in Procs :
        /\ p # q
        /\ t \in th[p].submitted
        /\ th[q].op = "submit" /\ Done(q)
        /\ th[q].resp.kind = "InternalFailure"
        /\ last.op = "SubmitWrite" /\ last.p = q
        /\ last.store[t].status = "PROCESSING"
        /\ CountLogged("TRANSACTION_SUBMITTED_TO_SWIFT", t) = 1

(* ------------------------- the lock under races ------------------------ *)
\* C35: a step of a login attempt made while lockedUntil is in the future
\* leaves lockedUntil as it was, however the attempts interleave.
C35_LockUntouchedWhileLocked ==
    \A a \in Accounts :
        (/\ last.op \in {"LoginRequest", "LoginFail", "LoginReset", "LoginUpdateLast"}
         /\ LockInFuture(last.emp[a], last.time))
        => empStore[a].lockedUntil = last.emp[a].lockedUntil

(* ----------------------- counter and lock together --------------------- *)
\* C36: an account whose lockedUntil is in the future has a stored
\* failedLoginAttempts of 5 or more, and an account whose stored
\* failedLoginAttempts is 0 has no lockedUntil in the future.
C36_LockedMeansFiveFailures ==
    \A a \in Accounts :
        /\ LockInFuture(empStore[a], now) => empStore[a].failedLoginAttempts >= maxAttempts
        /\ empStore[a].failedLoginAttempts = 0 => ~LockInFuture(empStore[a], now)

(* ------------------------- after a lock expires ------------------------ *)
\* C37: with logins served one at a time, the stored failedLoginAttempts
\* goes down only by the reset of a login that passed its password check, so
\* not by the passing of time; and a counted failure on an account that was
\* not locked, whose new count is 5 or more, leaves lockedUntil at the time
\* of the failure plus 15 minutes: one wrong password after an expired lock
\* locks the account again.
C37_ExpiryKeepsCounter ==
    \A a \in Accounts :
        /\ empStore[a].failedLoginAttempts = failStreak[a]
        /\ last.op \in {"LoginRequest", "LoginFail", "LoginUpdateLast"}
            => empStore[a].failedLoginAttempts >= last.emp[a].failedLoginAttempts
        /\ (/\ last.op = "LoginFail"
            /\ last.account = a
            /\ ~LockInFuture(last.emp[a], last.time)
            /\ empStore[a].failedLoginAttempts >= maxAttempts)
            => /\ empStore[a].lockedUntil = last.time + lockTime
               /\ LockInFuture(empStore[a], now)
        /\ (last.op = "LoginReset" /\ last.account = a)
            => lh[last.p].passwordOk /\ empStore[a].failedLoginAttempts = 0

\* The lock of five failures has run out with the counter still at 5, and
\* one more wrong password has locked the account again.
C37_Witness ==
    /\ last.op = "LoginFail"
    /\ last.account = 1
    /\ last.emp[1].failedLoginAttempts = maxAttempts
    /\ last.emp[1].lockedUntil # NoTime
    /\ last.emp[1].lockedUntil <= last.time
    /\ empStore[1].failedLoginAttempts = maxAttempts + 1
    /\ empStore[1].lockedUntil = now + lockTime

(* ----------------------- refresh and the lockout ----------------------- *)
\* C38: a refresh call, accepted or refused, leaves failedLoginAttempts,
\* lockedUntil and lastLoginAt of every employee as they were, and a valid
\* refresh token of an active employee is accepted also while that
\* employee's lockedUntil is in the future.
C38_RefreshIgnoresLockout ==
    last.op = "Refresh"
        => /\ \A a \in Accounts : LockoutFields(empStore[a]) = LockoutFields(last.emp[a])
           /\ \A a \in Accounts :
                (/\ last.in = Presented(generateEmployeeRefreshToken(a), "valid", FALSE)
                 /\ last.emp[a].isActive)
                => /\ rh[last.p].resp.code = 200
                   /\ rh[last.p].resp.token = generateEmployeeToken(a)
                   /\ rh[last.p].resp.refreshToken = generateEmployeeRefreshToken(a)

\* A refresh accepted while the account is locked after five failures.
C38_Witness ==
    /\ last.op = "Refresh"
    /\ last.in = Presented(generateEmployeeRefreshToken(1), "valid", FALSE)
    /\ last.emp[1].failedLoginAttempts = maxAttempts
    /\ LockInFuture(last.emp[1], last.time)
    /\ rh[last.p].resp.code = 200
    /\ empStore[1].lockedUntil = last.emp[1].lockedUntil

(* --------------------------- the portal page --------------------------- *)
\* The React state holds an employee and a token.
HoldsSession(c) == c.employee \notin {Null, Undefined} /\ c.token # NoToken

\* The page step taken last was a call of logout: from the page, or from
\* the session restore after a refresh that failed, a rejection with no
\* refresh token at hand, or a stored employee that could not be parsed.
LogoutCalled ==
    \/ last.op \in {"logout", "RefreshFailed"}
    \/ last.op = "GetCurrentEmployeeRejected" /\ last.client.storedRefreshToken = NoToken
    \/ /\ last.op = "Mount"
       /\ last.storage.employeeToken # NoToken
       /\ last.storage.employee = Undefined

\* C39: when the session restore of a page mounted with a stored token,
\* employee and refresh token has its access token rejected and its refresh
\* call answered with success, the page holds an employee and a token and
\* localStorage holds the new access and refresh tokens; when the refresh
\* fails or no refresh token is stored, the page holds neither and the
\* three keys are removed.
C39_SessionRestored ==
    /\ last.op = "RefreshResolved"
        => /\ HoldsSession(client)
           /\ localStorage.employeeToken = rh[1].resp.token
           /\ localStorage.employeeRefreshToken = rh[1].resp.refreshToken
    /\ ( \/ last.op = "RefreshFailed"
         \/ /\ last.op = "GetCurrentEmployeeRejected"
            /\ last.client.storedRefreshToken = NoToken )
        => /\ client.employee = Null
           /\ client.token = NoToken
           /\ localStorage = EmptyStorage

\* C40 as stated: the route renders its children only when loading is false
\* and isAuthenticated is true, isAuthenticated holds exactly when employee
\* and token are both held, and after logout and after a failed login made
\* from the unauthenticated state the route redirects to /employee/login.
C40_RedirectAfterLogout ==
    /\ ProtectedEmployeeRoute(client) = "children"
        => ~client.loading /\ HoldsSession(client)
    /\ isAuthenticated(client) <=> HoldsSession(client)
    /\ LogoutCalled => ProtectedEmployeeRoute(client) = "Navigate to /employee/login"
    /\ (last.op = "LoginFailed" /\ ~last.client.wasAuthenticated)
        => ProtectedEmployeeRoute(client) = "Navigate to /employee/login"

\* C40, amended: the route renders its children only when loading is false
\* and isAuthenticated is true, isAuthenticated holds exactly when employee
\* and token are both held; after logout the children are not rendered, and
\* the route redirects to /employee/login unless a login is in flight, when
\* it shows the spinner; after a failed login made from the
\* unauthenticated state the route redirects to /employee/login.
C40_RouteGate ==
    /\ ProtectedEmployeeRoute(client) = "children"
        => ~client.loading /\ HoldsSession(client)
    /\ isAuthenticated(client) <=> HoldsSession(client)
    /\ LogoutCalled
        => ProtectedEmployeeRoute(client) =
                IF client.login = "pending" THEN "LoadingSpinner"
                ELSE "Navigate to /employee/login"
    /\ (last.op = "LoginFailed" /\ ~last.client.wasAuthenticated)
        => ProtectedEmployeeRoute(client) = "Navigate to /employee/login"

\* The page rendered the children, logout was called from it, and the
\* route redirects.
C40_Witness ==
    /\ last.op = "logout"
    /\ ProtectedEmployeeRoute(last.client) = "children"
    /\ ProtectedEmployeeRoute(client) = "Navigate to /employee/login"

====
